---- MODULE Spec2Model ----
(***************************************************************************)
(* A model of the 7MS trading agent (src/app.py, src/agent_app.py):        *)
(*   - the approval gate of the Gradio front end (agent_state,             *)
(*     run_agent_analysis, handle_approval) together with the agent's      *)
(*     human-in-the-loop interrupt on send_order and the MT5 order sink;   *)
(*   - the risk calculator calculate_entry_sl_tp;                          *)
(*   - the order block detector identify_order_blocks;                     *)
(*   - the liquidity sweep detector detect_liquidity_sweep;                *)
(*   - the structure shift locator find_mss_and_poi;                       *)
(*   - the order tool send_order called on its own;                        *)
(*   - the console front end (main of src/app.py) and its decision prompt. *)
(* Prices of the gate are whole price units, lots are hundredths of a lot. *)
(***************************************************************************)
EXTENDS Integers, Sequences, FiniteSets, TLC

VARIABLES
    agent,              \* agent_state.agent: 0 is None, n the n-th agent created
    current_thread_id,  \* agent_state.current_thread_id: 0 is None
    is_running,         \* agent_state.is_running
    pending_interrupt,  \* agent_state.pending_interrupt: None or the action requests
    checkpoint,         \* each agent's checkpointer (MemorySaver): thread id -> state
    next_uuid,          \* the next fresh thread id uuid.uuid4() yields
    sink,               \* the requests mt5.order_send has received, in order
    pc,                 \* each GUI callback thread's position
    frame,              \* each GUI callback thread's local variables
    result,             \* what each GUI callback thread's last handler returned
    req_log,            \* history: every action request ever raised, by id
    calls,              \* history: every invocation of the send_order tool
    risk_in,            \* calculate_entry_sl_tp: the arguments of the call
    risk_out,           \* calculate_entry_sl_tp: what the call returned
    ob_in,              \* identify_order_blocks: the arguments and the rates MT5 supplies
    ob_out,             \* identify_order_blocks: what the call returned
    sweep_in,           \* detect_liquidity_sweep: the rates MT5 supplies
    sweeps,             \* detect_liquidity_sweep: its list of sweeps when it ended
    sweep_out,          \* detect_liquidity_sweep: what the call returned
    mss_in,             \* find_mss_and_poi: the argument and the rates MT5 supplies
    mss_out,            \* find_mss_and_poi: what the call returned
    order_in,           \* send_order: the arguments and what the terminal answers
    order_out,          \* send_order: what order_send received and what the call returned
    console             \* the console front end (main of src/app.py): its position and locals

gate_vars == <<agent, current_thread_id, is_running, pending_interrupt, checkpoint,
               next_uuid, sink, pc, frame, result, req_log, calls>>

risk_vars == <<risk_in, risk_out>>

ob_vars == <<ob_in, ob_out>>

sweep_vars == <<sweep_in, sweeps, sweep_out>>

mss_vars == <<mss_in, mss_out>>

order_vars == <<order_in, order_out>>

console_vars == <<console>>

vars == <<gate_vars, risk_vars, ob_vars, sweep_vars, mss_vars, order_vars, console_vars>>

(***************************************************************************)
(* Bounds of the model.                                                    *)
(***************************************************************************)
MaxThreads == 2
MaxRequests == 2
MaxActions == 2
MaxCallbacks == 3

Threads == 1..MaxThreads
Callers == 1..MaxCallbacks
SeqCallers == {1}

(***************************************************************************)
(* Values.                                                                 *)
(***************************************************************************)
None == <<>>

Min(a, b) == IF a <= b THEN a ELSE b
Max(a, b) == IF a >= b THEN a ELSE b
Abs(a) == IF a >= 0 THEN a ELSE -a

(***************************************************************************)
(* The send_order tool and the MT5 terminal it talks to.                   *)
(***************************************************************************)
SYMBOL == "XAUUSD"

\* The arguments of a send_order tool call.
OrderArgs(d, e, s, t, l) ==
    [direction |-> d, entry_price |-> e, sl_price |-> s, tp_price |-> t,
     lot_size |-> l, comment |-> "7MS Strategy"]

NoTick == [ok |-> FALSE, bid |-> 0, ask |-> 0]
Ticks == {[ok |-> TRUE, bid |-> 4193, ask |-> 4194]}

\* What the terminal answers during one send_order call: symbol_info (None or
\* not), its visible flag, symbol_select, symbol_info_tick and order_send's result.
MT5Env(info, vis, sel, tick, res) ==
    [symbol_info |-> info, visible |-> vis, select |-> sel, tick |-> tick, result |-> res]

Retcodes == {"None", "DONE", "REJECT"}

MT5Envs ==
    {MT5Env(FALSE, FALSE, FALSE, NoTick, "None"),
     MT5Env(TRUE, FALSE, FALSE, NoTick, "None"),
     MT5Env(TRUE, TRUE, FALSE, NoTick, "None"),
     MT5Env(TRUE, FALSE, TRUE, NoTick, "None")}
    \cup {MT5Env(TRUE, TRUE, FALSE, t, r) : t \in Ticks, r \in Retcodes}
    \cup {MT5Env(TRUE, FALSE, TRUE, t, "DONE") : t \in Ticks}

NoOrder == [symbol |-> "", volume |-> 0, type |-> "", price |-> 0, sl |-> 0, tp |-> 0,
            comment |-> ""]

ErrorResponse(msg) ==
    [order_sent |-> FALSE, error |-> msg, success |-> FALSE, retcode |-> "None"]

\* Mutant of send_order: the order goes out without a current tick.
send_order_NoTickCheck(args, env) ==
    IF ~env.symbol_info
    THEN [submitted |-> FALSE, request |-> NoOrder,
          response |-> ErrorResponse("Symbol info not available")]
    ELSE IF ~env.visible /\ ~env.select
    THEN [submitted |-> FALSE, request |-> NoOrder,
          response |-> ErrorResponse("Failed to select symbol")]
    ELSE LET order_type == IF args.direction = "buy" THEN "ORDER_TYPE_BUY"
                           ELSE "ORDER_TYPE_SELL"
             execution_price == IF args.direction = "buy" THEN env.tick.ask
                                ELSE env.tick.bid
             request == [symbol |-> SYMBOL, volume |-> args.lot_size, type |-> order_type,
                         price |-> execution_price, sl |-> args.sl_price,
                         tp |-> args.tp_price, comment |-> args.comment]
         IN [submitted |-> TRUE, request |-> request,
             response |->
                 IF env.result = "None"
                 THEN ErrorResponse("Order send returned None")
                 ELSE IF env.result # "DONE"
                 THEN [order_sent |-> TRUE, error |-> "Order execution failed",
                       success |-> FALSE, retcode |-> env.result]
                 ELSE [order_sent |-> TRUE, error |-> "", success |-> TRUE,
                       retcode |-> env.result]]

\* Mutant of send_order: the order is priced at entry_price, not at the tick.
send_order_PriceIsEntry(args, env) ==
    IF ~env.symbol_info
    THEN [submitted |-> FALSE, request |-> NoOrder,
          response |-> ErrorResponse("Symbol info not available")]
    ELSE IF ~env.visible /\ ~env.select
    THEN [submitted |-> FALSE, request |-> NoOrder,
          response |-> ErrorResponse("Failed to select symbol")]
    ELSE IF ~env.tick.ok
    THEN [submitted |-> FALSE, request |-> NoOrder,
          response |-> ErrorResponse("Failed to get current price")]
    ELSE LET order_type == IF args.direction = "buy" THEN "ORDER_TYPE_BUY"
                           ELSE "ORDER_TYPE_SELL"
             execution_price == IF args.direction = "buy" THEN env.tick.ask
                                ELSE env.tick.bid
             request == [symbol |-> SYMBOL, volume |-> args.lot_size, type |-> order_type,
                         price |-> args.entry_price, sl |-> args.sl_price,
                         tp |-> args.tp_price, comment |-> args.comment]
         IN [submitted |-> TRUE, request |-> request,
             response |->
                 IF env.result = "None"
                 THEN ErrorResponse("Order send returned None")
                 ELSE IF env.result # "DONE"
                 THEN [order_sent |-> TRUE, error |-> "Order execution failed",
                       success |-> FALSE, retcode |-> env.result]
                 ELSE [order_sent |-> TRUE, error |-> "", success |-> TRUE,
                       retcode |-> env.result]]

\* send_order: what it submits to mt5.order_send (if anything) and what it returns.
send_order(args, env) ==
    IF ~env.symbol_info
    THEN [submitted |-> FALSE, request |-> NoOrder,
          response |-> ErrorResponse("Symbol info not available")]
    ELSE IF ~env.visible /\ ~env.select
    THEN [submitted |-> FALSE, request |-> NoOrder,
          response |-> ErrorResponse("Failed to select symbol")]
    ELSE IF ~env.tick.ok
    THEN [submitted |-> FALSE, request |-> NoOrder,
          response |-> ErrorResponse("Failed to get current price")]
    ELSE LET order_type == IF args.direction = "buy" THEN "ORDER_TYPE_BUY"
                           ELSE "ORDER_TYPE_SELL"
             execution_price == IF args.direction = "buy" THEN env.tick.ask
                                ELSE env.tick.bid
             request == [symbol |-> SYMBOL, volume |-> args.lot_size, type |-> order_type,
                         price |-> execution_price, sl |-> args.sl_price,
                         tp |-> args.tp_price, comment |-> args.comment]
         IN [submitted |-> TRUE, request |-> request,
             response |->
                 IF env.result = "None"
                 THEN ErrorResponse("Order send returned None")
                 ELSE IF env.result # "DONE"
                 THEN [order_sent |-> TRUE, error |-> "Order execution failed",
                       success |-> FALSE, retcode |-> env.result]
                 ELSE [order_sent |-> TRUE, error |-> "", success |-> TRUE,
                       retcode |-> env.result]]

(***************************************************************************)
(* The agent: create_deep_agent with interrupt_on = {send_order: approve,  *)
(* reject, edit} and a MemorySaver checkpointer.  Which tool calls the     *)
(* language model makes is the environment's choice; send_order is the     *)
(* only tool that reaches the sink and every call of it is interrupted.    *)
(***************************************************************************)
\* The send_order calls the model may propose.
Proposed == {OrderArgs("buy", 4190, 4178, 4214, 1),
             OrderArgs("sell", 4190, 4202, 4166, 1)}

ActionRequest(id, args) == [id |-> id, name |-> "send_order", args |-> args]

\* The action request lists one interrupt may carry, with ids from `first` on.
RequestLists(first) ==
    UNION {{[i \in 1..n |-> ActionRequest(first + i - 1, f[i])] : f \in [1..n -> Proposed]}
           : n \in 1..MaxActions}

NoThreadState == [status |-> "none", requests |-> <<>>]

\* agent_state.agent = None.  Every create_7ms_agent() makes a new agent with a
\* MemorySaver of its own; agents are numbered as they are created.
NoAgent == 0

\* What stream_agent_with_interrupt returns: (output, has_interrupt, interrupt_data),
\* or the exception agent.stream raised.
StreamResult(has, data, raised) ==
    [has_interrupt |-> has, interrupt_data |-> data, raised |-> raised]

\* How the run goes on once the pending tool calls are done: the model finishes,
\* proposes further send_order calls, or the stream raises.
Continuations(first) ==
    {[kind |-> "complete", requests |-> <<>>], [kind |-> "raise", requests |-> <<>>]}
    \cup {[kind |-> "interrupt", requests |-> rs] :
            rs \in {r \in RequestLists(first) : first + Len(r) - 1 <= MaxRequests}}

ThreadStateAfter(cont) ==
    CASE cont.kind = "interrupt" -> [status |-> "interrupted", requests |-> cont.requests]
      [] cont.kind = "raise" -> [status |-> "failed", requests |-> <<>>]
      [] OTHER -> [status |-> "done", requests |-> <<>>]

StreamResultOf(cont) ==
    CASE cont.kind = "interrupt" -> StreamResult(TRUE, cont.requests, FALSE)
      [] cont.kind = "raise" -> StreamResult(FALSE, None, TRUE)
      [] OTHER -> StreamResult(FALSE, None, FALSE)

LogEntry(thread, r) ==
    [thread |-> thread, args |-> r.args, state |-> "pending", decided |-> r.args]

RECURSIVE LogEntries(_, _, _)
LogEntries(thread, rs, i) ==
    IF i > Len(rs) THEN <<>>
    ELSE <<LogEntry(thread, rs[i])>> \o LogEntries(thread, rs, i + 1)

\* The tool calls the human-in-the-loop middleware lets through for the decisions:
\* approve runs the call as proposed, edit runs the edited call, reject runs nothing.
RECURSIVE Invocations(_, _, _)
Invocations(reqs, decisions, i) ==
    IF i > Len(reqs) THEN <<>>
    ELSE LET r == reqs[i]
             d == decisions[i]
         IN (CASE d.type = "approve" -> <<[req |-> r.id, args |-> r.args]>>
               [] d.type = "edit" -> <<[req |-> r.id, args |-> d.edited_action.args]>>
               [] OTHER -> <<>>)
            \o Invocations(reqs, decisions, i + 1)

\* One send_order call of the tools node, in the terminal's state env.
ToolCall(inv, env) ==
    LET out == send_order(inv.args, env)
    IN [req |-> inv.req, args |-> inv.args, submitted |-> out.submitted,
        request |-> out.request]

\* agent.stream(Command(resume = {decisions}), thread), the tool calls: the
\* send_order calls the stream makes, one after the other, on a thread it
\* loaded as `st` from the checkpointer when it started.  A thread that is not
\* interrupted has nothing to resume; decisions that do not match the
\* interrupted calls one to one are refused by the middleware.
ResumeInvocations(st, decisions) ==
    IF st.status = "interrupted" /\ Len(decisions) = Len(st.requests)
    THEN Invocations(st.requests, decisions, 1)
    ELSE <<>>

\* History: the requests the decisions of a resume reach, on a thread loaded as st.
Decided(st, decisions) ==
    IF st.status = "interrupted" /\ Len(decisions) = Len(st.requests)
    THEN st.requests
    ELSE <<>>

\* agent.stream(Command(resume = {decisions}), thread), once the tool calls are
\* made: whether the state of the thread is saved and as what, and what the
\* stream yields.  `raised` are the requests of a further interrupt.
AgentResume(st, decisions, cont) ==
    IF st.status # "interrupted"
    THEN [saved |-> FALSE, state |-> st, raised |-> <<>>,
          stream |-> StreamResult(FALSE, None, FALSE)]
    ELSE IF Len(decisions) # Len(st.requests)
    THEN [saved |-> FALSE, state |-> st, raised |-> <<>>,
          stream |-> StreamResult(FALSE, None, TRUE)]
    ELSE [saved |-> TRUE, state |-> ThreadStateAfter(cont), raised |-> cont.requests,
          stream |-> StreamResultOf(cont)]

\* History: how the operator resolved a request.
ResolvedAs(decision) ==
    CASE decision = "approve" -> "approved"
      [] decision = "edit" -> "edited"
      [] decision = "reject" -> "rejected"
      [] OTHER -> "ignored"

\* History: the log after the operator's decisions reached the requests `reqs`:
\* an edited request is resolved to the arguments of its edited call.
Resolve(log, reqs, decision, decisions) ==
    [k \in DOMAIN log |->
        IF \E i \in DOMAIN reqs : reqs[i].id = k
        THEN LET i == CHOOSE j \in DOMAIN reqs : reqs[j].id = k
             IN [log[k] EXCEPT !.state = ResolvedAs(decision),
                               !.decided = IF decisions[i].type = "edit"
                                           THEN decisions[i].edited_action.args
                                           ELSE log[k].args]
        ELSE log[k]]

(***************************************************************************)
(* The GUI callbacks (src/agent_app.py).  A callback runs on a thread of   *)
(* its own; pc is its position, frame its locals.                          *)
(***************************************************************************)
NoArgs == OrderArgs("", 0, 0, 0, 0)
NoResume == [set |-> FALSE, decisions |-> <<>>]
NoFrame ==
    [decision |-> "", edit |-> NoArgs, action_requests |-> None, thread_id |-> 0,
     resume_value |-> NoResume, agent |-> NoAgent, loaded |-> NoThreadState,
     done |-> 0, stream |-> StreamResult(FALSE, None, FALSE), outcome |-> ""]

\* What the three approval buttons pass to handle_approval.
GuiDecisions == {"approve", "reject", "edit"}
\* The values of the edit fields (entry, stop, target, lot) an operator may enter.
EditInputs == {OrderArgs("", 4192, 4180, 4220, 2)}
ApproveInputs == {OrderArgs("", 0, 0, 0, 1)}

Decision(type, name, args) ==
    [type |-> type, edited_action |-> [name |-> name, args |-> args]]

\* Mutant of Decisions: a reject that is passed on as an approve.
RECURSIVE Decisions_RejectApproves(_, _, _, _)
Decisions_RejectApproves(decision, action_requests, edit, i) ==
    IF i > Len(action_requests) THEN <<>>
    ELSE LET action == action_requests[i]
             edited_args == [action.args EXCEPT !.entry_price = edit.entry_price,
                                                !.sl_price = edit.sl_price,
                                                !.tp_price = edit.tp_price,
                                                !.lot_size = edit.lot_size]
         IN <<IF decision = "edit" THEN Decision("edit", action.name, edited_args)
              ELSE Decision("approve", "", NoArgs)>>
            \o Decisions_RejectApproves(decision, action_requests, edit, i + 1)

RECURSIVE Decisions(_, _, _, _)
Decisions(decision, action_requests, edit, i) ==
    IF i > Len(action_requests) THEN <<>>
    ELSE LET action == action_requests[i]
             edited_args == [action.args EXCEPT !.entry_price = edit.entry_price,
                                                !.sl_price = edit.sl_price,
                                                !.tp_price = edit.tp_price,
                                                !.lot_size = edit.lot_size]
         IN <<IF decision = "edit" THEN Decision("edit", action.name, edited_args)
              ELSE Decision(decision, "", NoArgs)>>
            \o Decisions(decision, action_requests, edit, i + 1)

\* handle_approval's resume_value for the decision: None for anything but
\* approve, reject and edit.
ResumeValue(decision, action_requests, edit) ==
    IF decision \in {"approve", "reject", "edit"}
    THEN [set |-> TRUE, decisions |-> Decisions(decision, action_requests, edit, 1)]
    ELSE NoResume

Idle(c) == pc[c] = "idle"

Return(c, value) ==
    /\ pc' = [pc EXCEPT ![c] = "idle"]
    /\ frame' = [frame EXCEPT ![c] = NoFrame]
    /\ result' = [result EXCEPT ![c] = value]

Goto(c, label) == pc' = [pc EXCEPT ![c] = label]

\* run_agent_analysis, the guard: a run is in progress, so the call returns a warning.
RunAlreadyRunning(c) ==
    /\ Idle(c)
    /\ is_running
    /\ result' = [result EXCEPT ![c] = "already_running"]
    /\ UNCHANGED <<agent, current_thread_id, is_running, pending_interrupt, checkpoint,
                   next_uuid, sink, pc, frame, req_log, calls>>

\* The runs past the guard that have not taken their thread id yet.
Starting ==
    {c \in Callers :
        pc[c] \in {"run_begin", "run_clear", "run_check", "run_init", "run_thread"}}

\* run_agent_analysis, the guard passed.  (The model stops starting runs once
\* MaxThreads thread ids are used up.)
RunEnter(c) ==
    /\ Idle(c)
    /\ next_uuid + Cardinality(Starting) <= MaxThreads
    /\ ~is_running
    /\ Goto(c, "run_begin")
    /\ UNCHANGED <<agent, current_thread_id, is_running, pending_interrupt, checkpoint,
                   next_uuid, sink, frame, result, req_log, calls>>

\* agent_state.is_running = True
RunBegin(c) ==
    /\ pc[c] = "run_begin"
    /\ is_running' = TRUE
    /\ Goto(c, "run_clear")
    /\ UNCHANGED <<agent, current_thread_id, pending_interrupt, checkpoint, next_uuid,
                   sink, frame, result, req_log, calls>>

\* agent_state.pending_interrupt = None
RunClearPending(c) ==
    /\ pc[c] = "run_clear"
    /\ pending_interrupt' = None
    /\ Goto(c, "run_check")
    /\ UNCHANGED <<agent, current_thread_id, is_running, checkpoint, next_uuid, sink,
                   frame, result, req_log, calls>>

\* if agent_state.agent is None: the run reads whether an agent exists, and
\* initializes when it saw none.
RunCheckAgent(c) ==
    /\ pc[c] = "run_check"
    /\ Goto(c, IF agent = NoAgent THEN "run_init" ELSE "run_thread")
    /\ UNCHANGED <<agent, current_thread_id, is_running, pending_interrupt, checkpoint,
                   next_uuid, sink, frame, result, req_log, calls>>

\* The run initializes MT5, enables the symbol and creates the agent, waiting
\* for the terminal; any of the three may fail (ok is "mt5_failed",
\* "symbol_failed", "raise" or "ok").  The agent created is stored whatever
\* agent_state.agent holds by then.  A failed initialization sets is_running
\* to False and returns through the finally clause, which sets it again; an
\* exception of create_7ms_agent goes through the finally clause only.
RunInit(c, ok) ==
    /\ pc[c] = "run_init"
    /\ CASE ok = "ok" ->
              /\ agent' = agent + 1
              /\ Goto(c, "run_thread")
              /\ UNCHANGED <<is_running, frame, result>>
         [] ok = "raise" ->
              /\ is_running' = FALSE
              /\ Return(c, "error")
              /\ UNCHANGED agent
         [] OTHER ->
              /\ is_running' = FALSE
              /\ frame' = [frame EXCEPT ![c].outcome = "init_failed"]
              /\ Goto(c, "run_finally")
              /\ UNCHANGED <<agent, result>>
    /\ UNCHANGED <<current_thread_id, pending_interrupt, checkpoint, next_uuid, sink,
                   req_log, calls>>

\* thread_id = str(uuid.uuid4()); agent_state.current_thread_id = thread_id
RunNewThread(c) ==
    /\ pc[c] = "run_thread"
    /\ current_thread_id' = next_uuid
    /\ frame' = [frame EXCEPT ![c].thread_id = next_uuid]
    /\ next_uuid' = next_uuid + 1
    /\ Goto(c, "run_stream")
    /\ UNCHANGED <<agent, is_running, pending_interrupt, checkpoint, sink, result,
                   req_log, calls>>

\* stream_agent_with_interrupt(agent_state.agent, initial_message, config): the
\* call reads agent_state.agent and the stream is started on that agent.
RunStreamStart(c) ==
    /\ pc[c] = "run_stream"
    /\ frame' = [frame EXCEPT ![c].agent = agent]
    /\ Goto(c, "run_streaming")
    /\ UNCHANGED <<agent, current_thread_id, is_running, pending_interrupt, checkpoint,
                   next_uuid, sink, result, req_log, calls>>

\* The stream on the new thread ends: the agent it was started on saved the
\* state of the thread in its checkpointer.
RunStream(c, cont) ==
    /\ pc[c] = "run_streaming"
    /\ cont \in Continuations(Len(req_log) + 1)
    /\ checkpoint' = [checkpoint EXCEPT ![frame[c].agent][frame[c].thread_id] =
                                            ThreadStateAfter(cont)]
    /\ req_log' = req_log \o LogEntries(frame[c].thread_id, cont.requests, 1)
    /\ frame' = [frame EXCEPT ![c].stream = StreamResultOf(cont)]
    /\ Goto(c, "run_finish")
    /\ UNCHANGED <<agent, current_thread_id, is_running, pending_interrupt, next_uuid,
                   sink, result, calls>>

\* The pending interrupt a run leaves behind.
PendingAfterRun(old, stream) ==
    IF ~stream.raised /\ stream.has_interrupt THEN stream.interrupt_data ELSE old

\* The interrupt is stored for the approval panel, or the run is complete, or the
\* stream raised.
RunFinish(c) ==
    /\ pc[c] = "run_finish"
    /\ pending_interrupt' = PendingAfterRun(pending_interrupt, frame[c].stream)
    /\ frame' = [frame EXCEPT ![c].outcome =
                    IF frame[c].stream.raised THEN "error"
                    ELSE IF frame[c].stream.has_interrupt THEN "pending"
                    ELSE "complete"]
    /\ Goto(c, "run_finally")
    /\ UNCHANGED <<agent, current_thread_id, is_running, checkpoint, next_uuid, sink,
                   result, req_log, calls>>

\* Mutant of RunFinally: the run returns without its finally clause.
RunFinally_StaysRunning(c) ==
    /\ pc[c] = "run_finally"
    /\ Return(c, frame[c].outcome)
    /\ UNCHANGED <<agent, current_thread_id, is_running, pending_interrupt, checkpoint,
                   next_uuid, sink, req_log, calls>>

\* finally: agent_state.is_running = False, and the run returns.
RunFinally(c) ==
    /\ pc[c] = "run_finally"
    /\ is_running' = FALSE
    /\ Return(c, frame[c].outcome)
    /\ UNCHANGED <<agent, current_thread_id, pending_interrupt, checkpoint, next_uuid,
                   sink, req_log, calls>>

\* handle_approval with nothing pending: a warning, nothing else.
NoPending(pending) == pending = None

ApprovalNoPending(c) ==
    /\ Idle(c)
    /\ NoPending(pending_interrupt)
    /\ result' = [result EXCEPT ![c] = "no_pending"]
    /\ UNCHANGED <<agent, current_thread_id, is_running, pending_interrupt, checkpoint,
                   next_uuid, sink, pc, frame, req_log, calls>>

\* handle_approval, the guard passed: agent_state.pending_interrupt is not None.
ApprovalEnter(c, decision, edit) ==
    /\ Idle(c)
    /\ ~NoPending(pending_interrupt)
    /\ frame' = [frame EXCEPT ![c] = [NoFrame EXCEPT !.decision = decision,
                                                     !.edit = edit]]
    /\ Goto(c, "approval_read")
    /\ UNCHANGED <<agent, current_thread_id, is_running, pending_interrupt, checkpoint,
                   next_uuid, sink, result, req_log, calls>>

\* action_requests = agent_state.pending_interrupt: the second read, of whatever
\* the gate holds by now.  Building the decisions of approve, reject or edit
\* from None raises a TypeError, which the except clause answers.
ApprovalRead(c) ==
    /\ pc[c] = "approval_read"
    /\ IF NoPending(pending_interrupt) /\ frame[c].decision \in {"approve", "reject", "edit"}
       THEN /\ frame' = [frame EXCEPT ![c].stream = StreamResult(FALSE, None, TRUE)]
            /\ Goto(c, "approval_finish")
       ELSE /\ frame' = [frame EXCEPT ![c].action_requests = pending_interrupt]
            /\ Goto(c, "approval_thread")
    /\ UNCHANGED <<agent, current_thread_id, is_running, pending_interrupt, checkpoint,
                   next_uuid, sink, result, req_log, calls>>

\* config = {thread_id: agent_state.current_thread_id}, and the resume value is
\* built from the decision.
ApprovalThread(c) ==
    /\ pc[c] = "approval_thread"
    /\ frame' = [frame EXCEPT
                    ![c].thread_id = current_thread_id,
                    ![c].resume_value = ResumeValue(frame[c].decision,
                                                    frame[c].action_requests,
                                                    frame[c].edit)]
    /\ Goto(c, "approval_resume")
    /\ UNCHANGED <<agent, current_thread_id, is_running, pending_interrupt, checkpoint,
                   next_uuid, sink, result, req_log, calls>>

\* if resume_value and agent_state.agent: without a resume value or an agent
\* nothing is streamed.
ApprovalStart(c) ==
    /\ pc[c] = "approval_resume"
    /\ IF frame[c].resume_value.set /\ agent # NoAgent
       THEN Goto(c, "approval_agent")
       ELSE Goto(c, "approval_finish")
    /\ UNCHANGED <<agent, current_thread_id, is_running, pending_interrupt, checkpoint,
                   next_uuid, sink, frame, result, req_log, calls>>

\* stream_agent_with_interrupt(agent_state.agent, Command(resume=...), config):
\* the call reads agent_state.agent again and the stream is started on that
\* agent.
ApprovalAgent(c) ==
    /\ pc[c] = "approval_agent"
    /\ frame' = [frame EXCEPT ![c].agent = agent]
    /\ Goto(c, "approval_load")
    /\ UNCHANGED <<agent, current_thread_id, is_running, pending_interrupt, checkpoint,
                   next_uuid, sink, result, req_log, calls>>

\* The agent loads the state of the thread from its checkpointer.  Nothing keeps
\* two streams from loading the state of one thread.
ApprovalLoad(c) ==
    /\ pc[c] = "approval_load"
    /\ LET loaded == IF frame[c].thread_id \in Threads
                     THEN checkpoint[frame[c].agent][frame[c].thread_id]
                     ELSE NoThreadState
       IN /\ frame' = [frame EXCEPT ![c].loaded = loaded]
          /\ req_log' = Resolve(req_log,
                                Decided(loaded, frame[c].resume_value.decisions),
                                frame[c].decision, frame[c].resume_value.decisions)
    /\ Goto(c, "approval_stream")
    /\ UNCHANGED <<agent, current_thread_id, is_running, pending_interrupt, checkpoint,
                   next_uuid, sink, result, calls>>

\* The send_order calls resuming with callback c's decisions makes.
ResumeCalls(c) ==
    IF pc[c] = "approval_stream"
    THEN ResumeInvocations(frame[c].loaded, frame[c].resume_value.decisions)
    ELSE <<>>

\* The stream makes its next send_order call; the call waits for the terminal,
\* and other callbacks run meanwhile.
ApprovalTool(c, env) ==
    /\ pc[c] = "approval_stream"
    /\ frame[c].done < Len(ResumeCalls(c))
    /\ LET call == ToolCall(ResumeCalls(c)[frame[c].done + 1], env)
       IN /\ calls' = Append(calls, [req |-> call.req, submitted |-> call.submitted])
          /\ sink' = IF call.submitted
                     THEN Append(sink, [req |-> call.req, order |-> call.request])
                     ELSE sink
    /\ frame' = [frame EXCEPT ![c].done = @ + 1]
    /\ UNCHANGED <<agent, current_thread_id, is_running, pending_interrupt, checkpoint,
                   next_uuid, pc, result, req_log>>

\* The tool calls made, the agent goes on, the state of the thread is saved and
\* the stream ends.
ApprovalResume(c, cont) ==
    /\ pc[c] = "approval_stream"
    /\ frame[c].done = Len(ResumeCalls(c))
    /\ LET r == AgentResume(frame[c].loaded, frame[c].resume_value.decisions, cont)
       IN /\ checkpoint' =
                IF r.saved
                THEN [checkpoint EXCEPT ![frame[c].agent][frame[c].thread_id] = r.state]
                ELSE checkpoint
          /\ req_log' = req_log \o LogEntries(frame[c].thread_id, r.raised, 1)
          /\ frame' = [frame EXCEPT ![c].stream = r.stream]
    /\ Goto(c, "approval_finish")
    /\ UNCHANGED <<agent, current_thread_id, is_running, pending_interrupt, next_uuid,
                   sink, result, calls>>

\* Mutant of PendingAfterApproval: the resolved requests are left in place.
PendingAfterApproval_NotCleared(old, stream) ==
    IF ~stream.raised /\ stream.has_interrupt THEN stream.interrupt_data ELSE old

\* The pending interrupt handle_approval leaves behind: a further interrupt of
\* the resumed run, else None (also after an exception).
PendingAfterApproval(old, stream) ==
    IF ~stream.raised /\ stream.has_interrupt THEN stream.interrupt_data ELSE None

ApprovalFinish(c) ==
    /\ pc[c] = "approval_finish"
    /\ pending_interrupt' = PendingAfterApproval(pending_interrupt, frame[c].stream)
    /\ Return(c, IF frame[c].stream.raised THEN "error"
                 ELSE IF frame[c].stream.has_interrupt THEN "pending"
                 ELSE IF frame[c].resume_value.set THEN "resolved"
                 ELSE "ignored")
    /\ UNCHANGED <<agent, current_thread_id, is_running, checkpoint, next_uuid, sink,
                   req_log, calls>>

InitOutcomes == {"ok", "mt5_failed", "symbol_failed", "raise"}

GateInit ==
    /\ agent = NoAgent
    /\ current_thread_id = 0
    /\ is_running = FALSE
    /\ pending_interrupt = None
    /\ checkpoint = [a \in 1..MaxThreads |-> [t \in Threads |-> NoThreadState]]
    /\ next_uuid = 1
    /\ sink = <<>>
    /\ pc = [c \in Callers |-> "idle"]
    /\ frame = [c \in Callers |-> NoFrame]
    /\ result = [c \in Callers |-> "none"]
    /\ req_log = <<>>
    /\ calls = <<>>

\* One step of callback thread c.
Step(c) ==
    \/ RunEnter(c)
    \/ RunBegin(c)
    \/ RunClearPending(c)
    \/ RunCheckAgent(c)
    \/ \E ok \in InitOutcomes : RunInit(c, ok)
    \/ RunNewThread(c)
    \/ RunStreamStart(c)
    \/ \E cont \in Continuations(Len(req_log) + 1) : RunStream(c, cont)
    \/ RunFinish(c)
    \/ RunFinally(c)
    \/ ApprovalNoPending(c)
    \/ \E d \in GuiDecisions :
         \E e \in (IF d = "edit" THEN EditInputs ELSE ApproveInputs) :
            ApprovalEnter(c, d, e)
    \/ ApprovalRead(c)
    \/ ApprovalThread(c)
    \/ ApprovalStart(c)
    \/ ApprovalAgent(c)
    \/ ApprovalLoad(c)
    \/ \E env \in MT5Envs : ApprovalTool(c, env)
    \/ \E cont \in Continuations(Len(req_log) + 1) : ApprovalResume(c, cont)
    \/ ApprovalFinish(c)

\* The callbacks one after the other, as an operator clicking through the GUI
\* drives them: one callback thread, each handler run to its end.
Next ==
    /\ \E c \in SeqCallers : Step(c)
    /\ UNCHANGED <<risk_vars, ob_vars, sweep_vars, mss_vars, order_vars, console_vars>>

\* The callbacks as Gradio runs them: each event on a worker thread of its own,
\* with no lock in agent_state or around the handlers, so that the steps of
\* callbacks interleave.  Here a caller is one event: it runs one handler.
ConcStep(c) ==
    /\ Idle(c) => result[c] = "none"
    /\ Step(c) \/ RunAlreadyRunning(c)

ConcNext ==
    /\ \E c \in Callers : ConcStep(c)
    /\ UNCHANGED <<risk_vars, ob_vars, sweep_vars, mss_vars, order_vars, console_vars>>

(***************************************************************************)
(* The console front end: main and its process_stream (src/app.py).  One   *)
(* agent, one thread; at an interrupt the operator types a decision, which *)
(* is stripped and lowered, and the stream is resumed with it.  Typed text *)
(* is a sequence of characters, a character being its Unicode code point.  *)
(***************************************************************************)
\* "approve", "reject", "edit".
Approve == <<97, 112, 112, 114, 111, 118, 101>>
Reject == <<114, 101, 106, 101, 99, 116>>
Edit == <<101, 100, 105, 116>>

\* What an operator may type at the decision prompt: the three words,
\* " APPROVE\t", "Reject", "EDIT", "yes", "approved", nothing, "approve"
\* between a vertical tab and a no-break space, "reject" after a file
\* separator, and three texts with capitals from beyond ASCII: "EDIT" with an
\* acute E, "EDIT" with a dotted capital I, and the Greek capitals alpha
\* sigma, blank, sigma alpha.
TypedInputs ==
    {Approve, Reject, Edit,
     <<32, 65, 80, 80, 82, 79, 86, 69, 9>>,
     <<82, 101, 106, 101, 99, 116>>,
     <<69, 68, 73, 84>>,
     <<121, 101, 115>>,
     <<97, 112, 112, 114, 111, 118, 101, 100>>,
     <<>>,
     <<11>> \o Approve \o <<160>>,
     <<28>> \o Reject,
     <<201, 68, 73, 84>>,
     <<69, 68, 304, 84>>,
     <<913, 931, 32, 931, 913>>}

\* The characters str.strip removes: those str.isspace holds for, as runs
\* <<first, last>>.
Whitespace ==
    <<<<9, 13>>, <<28, 32>>, <<133, 133>>, <<160, 160>>, <<5760, 5760>>,
      <<8192, 8202>>, <<8232, 8233>>, <<8239, 8239>>, <<8287, 8287>>, <<12288, 12288>>>>

IsSpace(ch) == \E k \in DOMAIN Whitespace : Whitespace[k][1] <= ch /\ ch <= Whitespace[k][2]

\* str.strip: the text without its leading and trailing whitespace.
Strip(text) ==
    LET ink == {i \in DOMAIN text : ~IsSpace(text[i])}
    IN IF ink = {} THEN <<>>
       ELSE SubSeq(text, CHOOSE i \in ink : \A j \in ink : i <= j,
                         CHOOSE i \in ink : \A j \in ink : j <= i)

\* The characters with a lowercase form of one character, as
\* <<first, last, step, offset>>: first, first + step, ... up to last each lower
\* to the character offset further on.
LowerRanges ==
    <<<<65, 90, 1, 32>>, <<192, 214, 1, 32>>, <<216, 222, 1, 32>>,
      <<256, 302, 2, 1>>, <<306, 310, 2, 1>>, <<313, 327, 2, 1>>,
      <<330, 374, 2, 1>>, <<376, 376, 1, -121>>, <<377, 381, 2, 1>>,
      <<385, 385, 1, 210>>, <<386, 388, 2, 1>>, <<390, 390, 1, 206>>,
      <<391, 391, 1, 1>>, <<393, 394, 1, 205>>, <<395, 395, 1, 1>>,
      <<398, 398, 1, 79>>, <<399, 399, 1, 202>>, <<400, 400, 1, 203>>,
      <<401, 401, 1, 1>>, <<403, 403, 1, 205>>, <<404, 404, 1, 207>>,
      <<406, 406, 1, 211>>, <<407, 407, 1, 209>>, <<408, 408, 1, 1>>,
      <<412, 412, 1, 211>>, <<413, 413, 1, 213>>, <<415, 415, 1, 214>>,
      <<416, 420, 2, 1>>, <<422, 422, 1, 218>>, <<423, 423, 1, 1>>,
      <<425, 425, 1, 218>>, <<428, 428, 1, 1>>, <<430, 430, 1, 218>>,
      <<431, 431, 1, 1>>, <<433, 434, 1, 217>>, <<435, 437, 2, 1>>,
      <<439, 439, 1, 219>>, <<440, 440, 1, 1>>, <<444, 444, 1, 1>>,
      <<452, 452, 1, 2>>, <<453, 453, 1, 1>>, <<455, 455, 1, 2>>,
      <<456, 456, 1, 1>>, <<458, 458, 1, 2>>, <<459, 475, 2, 1>>,
      <<478, 494, 2, 1>>, <<497, 497, 1, 2>>, <<498, 500, 2, 1>>,
      <<502, 502, 1, -97>>, <<503, 503, 1, -56>>, <<504, 542, 2, 1>>,
      <<544, 544, 1, -130>>, <<546, 562, 2, 1>>, <<570, 570, 1, 10795>>,
      <<571, 571, 1, 1>>, <<573, 573, 1, -163>>, <<574, 574, 1, 10792>>,
      <<577, 577, 1, 1>>, <<579, 579, 1, -195>>, <<580, 580, 1, 69>>,
      <<581, 581, 1, 71>>, <<582, 590, 2, 1>>, <<880, 882, 2, 1>>,
      <<886, 886, 1, 1>>, <<895, 895, 1, 116>>, <<902, 902, 1, 38>>,
      <<904, 906, 1, 37>>, <<908, 908, 1, 64>>, <<910, 911, 1, 63>>,
      <<913, 929, 1, 32>>, <<931, 939, 1, 32>>, <<975, 975, 1, 8>>,
      <<984, 1006, 2, 1>>, <<1012, 1012, 1, -60>>, <<1015, 1015, 1, 1>>,
      <<1017, 1017, 1, -7>>, <<1018, 1018, 1, 1>>, <<1021, 1023, 1, -130>>,
      <<1024, 1039, 1, 80>>, <<1040, 1071, 1, 32>>, <<1120, 1152, 2, 1>>,
      <<1162, 1214, 2, 1>>, <<1216, 1216, 1, 15>>, <<1217, 1229, 2, 1>>,
      <<1232, 1326, 2, 1>>, <<1329, 1366, 1, 48>>, <<4256, 4293, 1, 7264>>,
      <<4295, 4295, 1, 7264>>, <<4301, 4301, 1, 7264>>,
      <<5024, 5103, 1, 38864>>, <<5104, 5109, 1, 8>>, <<7312, 7354, 1, -3008>>,
      <<7357, 7359, 1, -3008>>, <<7680, 7828, 2, 1>>, <<7838, 7838, 1, -7615>>,
      <<7840, 7934, 2, 1>>, <<7944, 7951, 1, -8>>, <<7960, 7965, 1, -8>>,
      <<7976, 7983, 1, -8>>, <<7992, 7999, 1, -8>>, <<8008, 8013, 1, -8>>,
      <<8025, 8031, 2, -8>>, <<8040, 8047, 1, -8>>, <<8072, 8079, 1, -8>>,
      <<8088, 8095, 1, -8>>, <<8104, 8111, 1, -8>>, <<8120, 8121, 1, -8>>,
      <<8122, 8123, 1, -74>>, <<8124, 8124, 1, -9>>, <<8136, 8139, 1, -86>>,
      <<8140, 8140, 1, -9>>, <<8152, 8153, 1, -8>>, <<8154, 8155, 1, -100>>,
      <<8168, 8169, 1, -8>>, <<8170, 8171, 1, -112>>, <<8172, 8172, 1, -7>>,
      <<8184, 8185, 1, -128>>, <<8186, 8187, 1, -126>>, <<8188, 8188, 1, -9>>,
      <<8486, 8486, 1, -7517>>, <<8490, 8490, 1, -8383>>,
      <<8491, 8491, 1, -8262>>, <<8498, 8498, 1, 28>>, <<8544, 8559, 1, 16>>,
      <<8579, 8579, 1, 1>>, <<9398, 9423, 1, 26>>, <<11264, 11311, 1, 48>>,
      <<11360, 11360, 1, 1>>, <<11362, 11362, 1, -10743>>,
      <<11363, 11363, 1, -3814>>, <<11364, 11364, 1, -10727>>,
      <<11367, 11371, 2, 1>>, <<11373, 11373, 1, -10780>>,
      <<11374, 11374, 1, -10749>>, <<11375, 11375, 1, -10783>>,
      <<11376, 11376, 1, -10782>>, <<11378, 11378, 1, 1>>,
      <<11381, 11381, 1, 1>>, <<11390, 11391, 1, -10815>>,
      <<11392, 11490, 2, 1>>, <<11499, 11501, 2, 1>>, <<11506, 11506, 1, 1>>,
      <<42560, 42604, 2, 1>>, <<42624, 42650, 2, 1>>, <<42786, 42798, 2, 1>>,
      <<42802, 42862, 2, 1>>, <<42873, 42875, 2, 1>>,
      <<42877, 42877, 1, -35332>>, <<42878, 42886, 2, 1>>,
      <<42891, 42891, 1, 1>>, <<42893, 42893, 1, -42280>>,
      <<42896, 42898, 2, 1>>, <<42902, 42920, 2, 1>>,
      <<42922, 42922, 1, -42308>>, <<42923, 42923, 1, -42319>>,
      <<42924, 42924, 1, -42315>>, <<42925, 42925, 1, -42305>>,
      <<42926, 42926, 1, -42308>>, <<42928, 42928, 1, -42258>>,
      <<42929, 42929, 1, -42282>>, <<42930, 42930, 1, -42261>>,
      <<42931, 42931, 1, 928>>, <<42932, 42946, 2, 1>>,
      <<42948, 42948, 1, -48>>, <<42949, 42949, 1, -42307>>,
      <<42950, 42950, 1, -35384>>, <<42951, 42953, 2, 1>>,
      <<42960, 42960, 1, 1>>, <<42966, 42968, 2, 1>>, <<42997, 42997, 1, 1>>,
      <<65313, 65338, 1, 32>>, <<66560, 66599, 1, 40>>,
      <<66736, 66771, 1, 40>>, <<66928, 66964, 2, 39>>,
      <<66929, 66937, 2, 39>>, <<66941, 66953, 2, 39>>,
      <<66957, 66961, 2, 39>>, <<66965, 66965, 1, 39>>,
      <<68736, 68786, 1, 64>>, <<71840, 71871, 1, 32>>,
      <<93760, 93791, 1, 32>>, <<125184, 125217, 1, 34>>>>

\* str.lower on one character: the text it lowers to.  Capital I with a dot
\* above lowers to two characters, i and a combining dot.
LowerChar(ch) ==
    LET hit == {k \in DOMAIN LowerRanges :
                   /\ LowerRanges[k][1] <= ch /\ ch <= LowerRanges[k][2]
                   /\ (ch - LowerRanges[k][1]) % LowerRanges[k][3] = 0}
    IN IF ch = 304 THEN <<105, 775>>
       ELSE IF hit = {} THEN <<ch>>
       ELSE <<ch + LowerRanges[CHOOSE k \in hit : TRUE][4]>>

\* The characters that case mapping looks through (apostrophes, accents,
\* modifier letters and the like), as runs <<first, last>>.
CaseIgnorable ==
    <<<<39, 39>>, <<46, 46>>, <<58, 58>>, <<94, 94>>, <<96, 96>>, <<168, 168>>,
      <<173, 173>>, <<175, 175>>, <<180, 180>>, <<183, 184>>, <<688, 879>>,
      <<884, 885>>, <<890, 890>>, <<900, 901>>, <<903, 903>>, <<1155, 1161>>,
      <<1369, 1369>>, <<1375, 1375>>, <<1425, 1469>>, <<1471, 1471>>,
      <<1473, 1474>>, <<1476, 1477>>, <<1479, 1479>>, <<1524, 1524>>,
      <<1536, 1541>>, <<1552, 1562>>, <<1564, 1564>>, <<1600, 1600>>,
      <<1611, 1631>>, <<1648, 1648>>, <<1750, 1757>>, <<1759, 1768>>,
      <<1770, 1773>>, <<1807, 1807>>, <<1809, 1809>>, <<1840, 1866>>,
      <<1958, 1968>>, <<2027, 2037>>, <<2042, 2042>>, <<2045, 2045>>,
      <<2070, 2093>>, <<2137, 2139>>, <<2184, 2184>>, <<2192, 2193>>,
      <<2200, 2207>>, <<2249, 2306>>, <<2362, 2362>>, <<2364, 2364>>,
      <<2369, 2376>>, <<2381, 2381>>, <<2385, 2391>>, <<2402, 2403>>,
      <<2417, 2417>>, <<2433, 2433>>, <<2492, 2492>>, <<2497, 2500>>,
      <<2509, 2509>>, <<2530, 2531>>, <<2558, 2558>>, <<2561, 2562>>,
      <<2620, 2620>>, <<2625, 2626>>, <<2631, 2632>>, <<2635, 2637>>,
      <<2641, 2641>>, <<2672, 2673>>, <<2677, 2677>>, <<2689, 2690>>,
      <<2748, 2748>>, <<2753, 2757>>, <<2759, 2760>>, <<2765, 2765>>,
      <<2786, 2787>>, <<2810, 2815>>, <<2817, 2817>>, <<2876, 2876>>,
      <<2879, 2879>>, <<2881, 2884>>, <<2893, 2893>>, <<2901, 2902>>,
      <<2914, 2915>>, <<2946, 2946>>, <<3008, 3008>>, <<3021, 3021>>,
      <<3072, 3072>>, <<3076, 3076>>, <<3132, 3132>>, <<3134, 3136>>,
      <<3142, 3144>>, <<3146, 3149>>, <<3157, 3158>>, <<3170, 3171>>,
      <<3201, 3201>>, <<3260, 3260>>, <<3263, 3263>>, <<3270, 3270>>,
      <<3276, 3277>>, <<3298, 3299>>, <<3328, 3329>>, <<3387, 3388>>,
      <<3393, 3396>>, <<3405, 3405>>, <<3426, 3427>>, <<3457, 3457>>,
      <<3530, 3530>>, <<3538, 3540>>, <<3542, 3542>>, <<3633, 3633>>,
      <<3636, 3642>>, <<3654, 3662>>, <<3761, 3761>>, <<3764, 3772>>,
      <<3782, 3782>>, <<3784, 3789>>, <<3864, 3865>>, <<3893, 3893>>,
      <<3895, 3895>>, <<3897, 3897>>, <<3953, 3966>>, <<3968, 3972>>,
      <<3974, 3975>>, <<3981, 3991>>, <<3993, 4028>>, <<4038, 4038>>,
      <<4141, 4144>>, <<4146, 4151>>, <<4153, 4154>>, <<4157, 4158>>,
      <<4184, 4185>>, <<4190, 4192>>, <<4209, 4212>>, <<4226, 4226>>,
      <<4229, 4230>>, <<4237, 4237>>, <<4253, 4253>>, <<4348, 4348>>,
      <<4957, 4959>>, <<5906, 5908>>, <<5938, 5939>>, <<5970, 5971>>,
      <<6002, 6003>>, <<6068, 6069>>, <<6071, 6077>>, <<6086, 6086>>,
      <<6089, 6099>>, <<6103, 6103>>, <<6109, 6109>>, <<6155, 6159>>,
      <<6211, 6211>>, <<6277, 6278>>, <<6313, 6313>>, <<6432, 6434>>,
      <<6439, 6440>>, <<6450, 6450>>, <<6457, 6459>>, <<6679, 6680>>,
      <<6683, 6683>>, <<6742, 6742>>, <<6744, 6750>>, <<6752, 6752>>,
      <<6754, 6754>>, <<6757, 6764>>, <<6771, 6780>>, <<6783, 6783>>,
      <<6823, 6823>>, <<6832, 6862>>, <<6912, 6915>>, <<6964, 6964>>,
      <<6966, 6970>>, <<6972, 6972>>, <<6978, 6978>>, <<7019, 7027>>,
      <<7040, 7041>>, <<7074, 7077>>, <<7080, 7081>>, <<7083, 7085>>,
      <<7142, 7142>>, <<7144, 7145>>, <<7149, 7149>>, <<7151, 7153>>,
      <<7212, 7219>>, <<7222, 7223>>, <<7288, 7293>>, <<7376, 7378>>,
      <<7380, 7392>>, <<7394, 7400>>, <<7405, 7405>>, <<7412, 7412>>,
      <<7416, 7417>>, <<7468, 7530>>, <<7544, 7544>>, <<7579, 7679>>,
      <<8125, 8125>>, <<8127, 8129>>, <<8141, 8143>>, <<8157, 8159>>,
      <<8173, 8175>>, <<8189, 8190>>, <<8203, 8207>>, <<8216, 8217>>,
      <<8228, 8228>>, <<8231, 8231>>, <<8234, 8238>>, <<8288, 8292>>,
      <<8294, 8303>>, <<8305, 8305>>, <<8319, 8319>>, <<8336, 8348>>,
      <<8400, 8432>>, <<11388, 11389>>, <<11503, 11505>>, <<11631, 11631>>,
      <<11647, 11647>>, <<11744, 11775>>, <<11823, 11823>>, <<12293, 12293>>,
      <<12330, 12333>>, <<12337, 12341>>, <<12347, 12347>>, <<12441, 12446>>,
      <<12540, 12542>>, <<40981, 40981>>, <<42232, 42237>>, <<42508, 42508>>,
      <<42607, 42610>>, <<42612, 42621>>, <<42623, 42623>>, <<42652, 42655>>,
      <<42736, 42737>>, <<42752, 42785>>, <<42864, 42864>>, <<42888, 42890>>,
      <<42994, 42996>>, <<43000, 43001>>, <<43010, 43010>>, <<43014, 43014>>,
      <<43019, 43019>>, <<43045, 43046>>, <<43052, 43052>>, <<43204, 43205>>,
      <<43232, 43249>>, <<43263, 43263>>, <<43302, 43309>>, <<43335, 43345>>,
      <<43392, 43394>>, <<43443, 43443>>, <<43446, 43449>>, <<43452, 43453>>,
      <<43471, 43471>>, <<43493, 43494>>, <<43561, 43566>>, <<43569, 43570>>,
      <<43573, 43574>>, <<43587, 43587>>, <<43596, 43596>>, <<43632, 43632>>,
      <<43644, 43644>>, <<43696, 43696>>, <<43698, 43700>>, <<43703, 43704>>,
      <<43710, 43711>>, <<43713, 43713>>, <<43741, 43741>>, <<43756, 43757>>,
      <<43763, 43764>>, <<43766, 43766>>, <<43867, 43871>>, <<43881, 43883>>,
      <<44005, 44005>>, <<44008, 44008>>, <<44013, 44013>>, <<64286, 64286>>,
      <<64434, 64450>>, <<65024, 65039>>, <<65043, 65043>>, <<65056, 65071>>,
      <<65106, 65106>>, <<65109, 65109>>, <<65279, 65279>>, <<65287, 65287>>,
      <<65294, 65294>>, <<65306, 65306>>, <<65342, 65342>>, <<65344, 65344>>,
      <<65392, 65392>>, <<65438, 65439>>, <<65507, 65507>>, <<65529, 65531>>,
      <<66045, 66045>>, <<66272, 66272>>, <<66422, 66426>>, <<67456, 67461>>,
      <<67463, 67504>>, <<67506, 67514>>, <<68097, 68099>>, <<68101, 68102>>,
      <<68108, 68111>>, <<68152, 68154>>, <<68159, 68159>>, <<68325, 68326>>,
      <<68900, 68903>>, <<69291, 69292>>, <<69446, 69456>>, <<69506, 69509>>,
      <<69633, 69633>>, <<69688, 69702>>, <<69744, 69744>>, <<69747, 69748>>,
      <<69759, 69761>>, <<69811, 69814>>, <<69817, 69818>>, <<69821, 69821>>,
      <<69826, 69826>>, <<69837, 69837>>, <<69888, 69890>>, <<69927, 69931>>,
      <<69933, 69940>>, <<70003, 70003>>, <<70016, 70017>>, <<70070, 70078>>,
      <<70089, 70092>>, <<70095, 70095>>, <<70191, 70193>>, <<70196, 70196>>,
      <<70198, 70199>>, <<70206, 70206>>, <<70367, 70367>>, <<70371, 70378>>,
      <<70400, 70401>>, <<70459, 70460>>, <<70464, 70464>>, <<70502, 70508>>,
      <<70512, 70516>>, <<70712, 70719>>, <<70722, 70724>>, <<70726, 70726>>,
      <<70750, 70750>>, <<70835, 70840>>, <<70842, 70842>>, <<70847, 70848>>,
      <<70850, 70851>>, <<71090, 71093>>, <<71100, 71101>>, <<71103, 71104>>,
      <<71132, 71133>>, <<71219, 71226>>, <<71229, 71229>>, <<71231, 71232>>,
      <<71339, 71339>>, <<71341, 71341>>, <<71344, 71349>>, <<71351, 71351>>,
      <<71453, 71455>>, <<71458, 71461>>, <<71463, 71467>>, <<71727, 71735>>,
      <<71737, 71738>>, <<71995, 71996>>, <<71998, 71998>>, <<72003, 72003>>,
      <<72148, 72151>>, <<72154, 72155>>, <<72160, 72160>>, <<72193, 72202>>,
      <<72243, 72248>>, <<72251, 72254>>, <<72263, 72263>>, <<72273, 72278>>,
      <<72281, 72283>>, <<72330, 72342>>, <<72344, 72345>>, <<72752, 72758>>,
      <<72760, 72765>>, <<72767, 72767>>, <<72850, 72871>>, <<72874, 72880>>,
      <<72882, 72883>>, <<72885, 72886>>, <<73009, 73014>>, <<73018, 73018>>,
      <<73020, 73021>>, <<73023, 73029>>, <<73031, 73031>>, <<73104, 73105>>,
      <<73109, 73109>>, <<73111, 73111>>, <<73459, 73460>>, <<78896, 78904>>,
      <<92912, 92916>>, <<92976, 92982>>, <<92992, 92995>>, <<94031, 94031>>,
      <<94095, 94111>>, <<94176, 94177>>, <<94179, 94180>>, <<110576, 110579>>,
      <<110581, 110587>>, <<110589, 110590>>, <<113821, 113822>>,
      <<113824, 113827>>, <<118528, 118573>>, <<118576, 118598>>,
      <<119143, 119145>>, <<119155, 119170>>, <<119173, 119179>>,
      <<119210, 119213>>, <<119362, 119364>>, <<121344, 121398>>,
      <<121403, 121452>>, <<121461, 121461>>, <<121476, 121476>>,
      <<121499, 121503>>, <<121505, 121519>>, <<122880, 122886>>,
      <<122888, 122904>>, <<122907, 122913>>, <<122915, 122916>>,
      <<122918, 122922>>, <<123184, 123197>>, <<123566, 123566>>,
      <<123628, 123631>>, <<125136, 125142>>, <<125252, 125259>>,
      <<127995, 127999>>, <<917505, 917505>>, <<917536, 917631>>,
      <<917760, 917999>>>>

\* The cased characters among the others, as runs.
CasedLetters ==
    <<<<65, 90>>, <<97, 122>>, <<170, 170>>, <<181, 181>>, <<186, 186>>,
      <<192, 214>>, <<216, 246>>, <<248, 442>>, <<444, 447>>, <<452, 659>>,
      <<661, 687>>, <<880, 883>>, <<886, 887>>, <<891, 893>>, <<895, 895>>,
      <<902, 902>>, <<904, 906>>, <<908, 908>>, <<910, 929>>, <<931, 1013>>,
      <<1015, 1153>>, <<1162, 1327>>, <<1329, 1366>>, <<1376, 1416>>,
      <<4256, 4293>>, <<4295, 4295>>, <<4301, 4301>>, <<4304, 4346>>,
      <<4349, 4351>>, <<5024, 5109>>, <<5112, 5117>>, <<7296, 7304>>,
      <<7312, 7354>>, <<7357, 7359>>, <<7424, 7467>>, <<7531, 7543>>,
      <<7545, 7578>>, <<7680, 7957>>, <<7960, 7965>>, <<7968, 8005>>,
      <<8008, 8013>>, <<8016, 8023>>, <<8025, 8025>>, <<8027, 8027>>,
      <<8029, 8029>>, <<8031, 8061>>, <<8064, 8116>>, <<8118, 8124>>,
      <<8126, 8126>>, <<8130, 8132>>, <<8134, 8140>>, <<8144, 8147>>,
      <<8150, 8155>>, <<8160, 8172>>, <<8178, 8180>>, <<8182, 8188>>,
      <<8450, 8450>>, <<8455, 8455>>, <<8458, 8467>>, <<8469, 8469>>,
      <<8473, 8477>>, <<8484, 8484>>, <<8486, 8486>>, <<8488, 8488>>,
      <<8490, 8493>>, <<8495, 8500>>, <<8505, 8505>>, <<8508, 8511>>,
      <<8517, 8521>>, <<8526, 8526>>, <<8544, 8575>>, <<8579, 8580>>,
      <<9398, 9449>>, <<11264, 11387>>, <<11390, 11492>>, <<11499, 11502>>,
      <<11506, 11507>>, <<11520, 11557>>, <<11559, 11559>>, <<11565, 11565>>,
      <<42560, 42605>>, <<42624, 42651>>, <<42786, 42863>>, <<42865, 42887>>,
      <<42891, 42894>>, <<42896, 42954>>, <<42960, 42961>>, <<42963, 42963>>,
      <<42965, 42969>>, <<42997, 42998>>, <<43002, 43002>>, <<43824, 43866>>,
      <<43872, 43880>>, <<43888, 43967>>, <<64256, 64262>>, <<64275, 64279>>,
      <<65313, 65338>>, <<65345, 65370>>, <<66560, 66639>>, <<66736, 66771>>,
      <<66776, 66811>>, <<66928, 66938>>, <<66940, 66954>>, <<66956, 66962>>,
      <<66964, 66965>>, <<66967, 66977>>, <<66979, 66993>>, <<66995, 67001>>,
      <<67003, 67004>>, <<68736, 68786>>, <<68800, 68850>>, <<71840, 71903>>,
      <<93760, 93823>>, <<119808, 119892>>, <<119894, 119964>>,
      <<119966, 119967>>, <<119970, 119970>>, <<119973, 119974>>,
      <<119977, 119980>>, <<119982, 119993>>, <<119995, 119995>>,
      <<119997, 120003>>, <<120005, 120069>>, <<120071, 120074>>,
      <<120077, 120084>>, <<120086, 120092>>, <<120094, 120121>>,
      <<120123, 120126>>, <<120128, 120132>>, <<120134, 120134>>,
      <<120138, 120144>>, <<120146, 120485>>, <<120488, 120512>>,
      <<120514, 120538>>, <<120540, 120570>>, <<120572, 120596>>,
      <<120598, 120628>>, <<120630, 120654>>, <<120656, 120686>>,
      <<120688, 120712>>, <<120714, 120744>>, <<120746, 120770>>,
      <<120772, 120779>>, <<122624, 122633>>, <<122635, 122654>>,
      <<125184, 125251>>, <<127280, 127305>>, <<127312, 127337>>,
      <<127344, 127369>>>>

IsCaseIgnorable(ch) ==
    \E k \in DOMAIN CaseIgnorable : CaseIgnorable[k][1] <= ch /\ ch <= CaseIgnorable[k][2]

IsCased(ch) ==
    \E k \in DOMAIN CasedLetters : CasedLetters[k][1] <= ch /\ ch <= CasedLetters[k][2]

\* A capital sigma at i ends a word: looking through the ignorable characters,
\* a cased letter comes before it and none comes after it.
FinalSigma(text, i) ==
    LET before == {j \in 1..(i - 1) : ~IsCaseIgnorable(text[j])}
        after == {j \in (i + 1)..Len(text) : ~IsCaseIgnorable(text[j])}
    IN /\ before # {}
       /\ IsCased(text[CHOOSE j \in before : \A k \in before : k <= j])
       /\ after = {} \/ ~IsCased(text[CHOOSE j \in after : \A k \in after : j <= k])

\* str.lower: each character lowered, a capital sigma to the final sigma where
\* it ends a word.
Lower(text) ==
    LET piece(i) == IF text[i] = 931
                    THEN (IF FinalSigma(text, i) THEN <<962>> ELSE <<963>>)
                    ELSE LowerChar(text[i])
        join[i \in 0..Len(text)] == IF i = 0 THEN <<>> ELSE join[i - 1] \o piece(i)
    IN join[Len(text)]

\* decision = input(...).strip().lower(), as the branch of the if chain it takes.
TypedDecision(typed) ==
    LET decision == Lower(Strip(typed))
    IN CASE decision = Approve -> "approve"
         [] decision = Reject -> "reject"
         [] decision = Edit -> "edit"
         [] OTHER -> "invalid"

\* What the operator types in edit mode for one action: a new value for a key,
\* or nothing (0, ""), which keeps the value proposed.
NoEdit == [direction |-> "", entry_price |-> 0, sl_price |-> 0, tp_price |-> 0,
           lot_size |-> 0, comment |-> ""]
ConsoleEdits == {NoEdit, [NoEdit EXCEPT !.direction = "sell"]} \cup
                {[NoEdit EXCEPT !.direction = d, !.entry_price = e.entry_price,
                                !.sl_price = e.sl_price, !.tp_price = e.tp_price,
                                !.lot_size = e.lot_size] :
                    d \in {"", "sell"}, e \in EditInputs}

EditedArgs(args, typed) ==
    [direction |-> IF typed.direction # "" THEN typed.direction ELSE args.direction,
     entry_price |-> IF typed.entry_price # 0 THEN typed.entry_price ELSE args.entry_price,
     sl_price |-> IF typed.sl_price # 0 THEN typed.sl_price ELSE args.sl_price,
     tp_price |-> IF typed.tp_price # 0 THEN typed.tp_price ELSE args.tp_price,
     lot_size |-> IF typed.lot_size # 0 THEN typed.lot_size ELSE args.lot_size,
     comment |-> IF typed.comment # "" THEN typed.comment ELSE args.comment]

\* Mutant of ConsoleDecisions: text that is not recognised approves the trade.
RECURSIVE ConsoleDecisions_InvalidApproves(_, _, _, _)
ConsoleDecisions_InvalidApproves(decision, action_requests, edits, i) ==
    IF i > Len(action_requests) THEN <<>>
    ELSE LET action == action_requests[i]
         IN <<CASE decision = "reject" -> Decision("reject", "", NoArgs)
                [] decision = "edit" ->
                     Decision("edit", action.name, EditedArgs(action.args, edits[i]))
                [] OTHER -> Decision("approve", "", NoArgs)>>
            \o ConsoleDecisions_InvalidApproves(decision, action_requests, edits, i + 1)

\* The decisions of resume_value: one per pending action; anything that is not
\* approve, reject or edit rejects.
RECURSIVE ConsoleDecisions(_, _, _, _)
ConsoleDecisions(decision, action_requests, edits, i) ==
    IF i > Len(action_requests) THEN <<>>
    ELSE LET action == action_requests[i]
         IN <<CASE decision = "approve" -> Decision("approve", "", NoArgs)
                [] decision = "edit" ->
                     Decision("edit", action.name, EditedArgs(action.args, edits[i]))
                [] OTHER -> Decision("reject", "", NoArgs)>>
            \o ConsoleDecisions(decision, action_requests, edits, i + 1)

\* History: the log after the console operator's decision reached the requests.
ConsoleResolve(log, reqs, decision, decisions) == Resolve(log, reqs, decision, decisions)

NoConsole ==
    [pc |-> "off", error |-> "", thread_id |-> 0, action_requests |-> None,
     typed |-> <<>>, decision |-> "", decisions |-> <<>>, done |-> 0]

ConsoleOff == console = NoConsole

ConsoleReady == console = [NoConsole EXCEPT !.pc = "start"]

\* The console's agent is the one agent of its process.
ConsoleAgent == 1

\* agent = create_7ms_agent(); thread_id = str(uuid.uuid4()).  create_7ms_agent
\* returns the agent (ok is "ok") or raises because initialize_mt5 or
\* check_symbol failed ("mt5_failed", "symbol_failed"); main does not catch
\* what it raises: it ends there.
ConsoleStart(ok) ==
    /\ console.pc = "start"
    /\ IF ok = "ok"
       THEN /\ next_uuid <= MaxThreads
            /\ console' = [console EXCEPT !.pc = "stream", !.thread_id = next_uuid]
            /\ next_uuid' = next_uuid + 1
       ELSE /\ console' = [console EXCEPT
                              !.pc = "raised",
                              !.error = IF ok = "mt5_failed"
                                        THEN "Failed to initialize MT5"
                                        ELSE "Failed to enable trading symbol"]
            /\ UNCHANGED next_uuid
    /\ UNCHANGED <<agent, current_thread_id, is_running, pending_interrupt, checkpoint,
                   sink, pc, frame, result, req_log, calls>>

\* Where process_stream goes after a stream: to the prompt at an interrupt, to
\* the final results when the stream ended; an exception of the first stream
\* ends main, one of a resumed stream is printed.
AfterStream(stream, is_resume) ==
    IF stream.raised THEN (IF is_resume THEN "final" ELSE "done")
    ELSE IF stream.has_interrupt THEN "ask"
    ELSE "final"

\* process_stream(initial_message): the agent runs up to its first interrupt.
ConsoleStream(cont) ==
    /\ console.pc = "stream"
    /\ cont \in Continuations(Len(req_log) + 1)
    /\ checkpoint' = [checkpoint EXCEPT ![ConsoleAgent][console.thread_id] =
                                            ThreadStateAfter(cont)]
    /\ req_log' = req_log \o LogEntries(console.thread_id, cont.requests, 1)
    /\ console' = [console EXCEPT !.pc = AfterStream(StreamResultOf(cont), FALSE),
                                  !.action_requests = cont.requests]
    /\ UNCHANGED <<agent, current_thread_id, is_running, pending_interrupt, next_uuid,
                   sink, pc, frame, result, calls>>

\* The prompt: the operator types a decision (and, in edit mode, values for the
\* keys of each action) and resume_value is built.
ConsoleAsk(typed, edits) ==
    /\ console.pc = "ask"
    /\ edits \in [1..Len(console.action_requests) -> ConsoleEdits]
    /\ TypedDecision(typed) # "edit" => \A i \in DOMAIN edits : edits[i] = NoEdit
    /\ console' = [console EXCEPT
                      !.pc = "resume",
                      !.done = 0,
                      !.typed = typed,
                      !.decision = TypedDecision(typed),
                      !.decisions = ConsoleDecisions(TypedDecision(typed),
                                                     console.action_requests, edits, 1)]
    /\ UNCHANGED gate_vars

\* process_stream(Command(resume = resume_value), is_resume = True): the stream
\* is started with the decisions.
ConsoleLoad ==
    /\ console.pc = "resume"
    /\ req_log' = ConsoleResolve(req_log,
                                 Decided(checkpoint[ConsoleAgent][console.thread_id],
                                         console.decisions),
                                 console.decision, console.decisions)
    /\ console' = [console EXCEPT !.pc = "tools"]
    /\ UNCHANGED <<agent, current_thread_id, is_running, pending_interrupt, checkpoint,
                   next_uuid, sink, pc, frame, result, calls>>

\* The send_order calls the resume of the console's thread makes.
ConsoleCalls ==
    IF console.pc = "tools"
    THEN ResumeInvocations(checkpoint[ConsoleAgent][console.thread_id],
                           console.decisions)
    ELSE <<>>

\* The stream makes its next send_order call.
ConsoleTool(env) ==
    /\ console.pc = "tools"
    /\ console.done < Len(ConsoleCalls)
    /\ LET call == ToolCall(ConsoleCalls[console.done + 1], env)
       IN /\ calls' = Append(calls, [req |-> call.req, submitted |-> call.submitted])
          /\ sink' = IF call.submitted
                     THEN Append(sink, [req |-> call.req, order |-> call.request])
                     ELSE sink
    /\ console' = [console EXCEPT !.done = @ + 1]
    /\ UNCHANGED <<agent, current_thread_id, is_running, pending_interrupt, checkpoint,
                   next_uuid, pc, frame, result, req_log>>

\* The tool calls made, the agent goes on and the stream ends.
ConsoleResume(cont) ==
    /\ console.pc = "tools"
    /\ console.done = Len(ConsoleCalls)
    /\ cont \in Continuations(Len(req_log) + 1)
    /\ LET r == AgentResume(checkpoint[ConsoleAgent][console.thread_id],
                            console.decisions, cont)
       IN /\ checkpoint' =
                IF r.saved
                THEN [checkpoint EXCEPT ![ConsoleAgent][console.thread_id] = r.state]
                ELSE checkpoint
          /\ req_log' = req_log \o LogEntries(console.thread_id, r.raised, 1)
          /\ console' = [console EXCEPT !.pc = AfterStream(r.stream, TRUE),
                                        !.action_requests = r.stream.interrupt_data]
    /\ UNCHANGED <<agent, current_thread_id, is_running, pending_interrupt, next_uuid,
                   sink, pc, frame, result, calls>>

\* The final response and the open positions are printed; main returns.
ConsoleFinal ==
    /\ console.pc = "final"
    /\ console' = [console EXCEPT !.pc = "done"]
    /\ UNCHANGED gate_vars

ConsoleStep ==
    \/ \E ok \in {"ok", "mt5_failed", "symbol_failed"} : ConsoleStart(ok)
    \/ \E cont \in Continuations(Len(req_log) + 1) : ConsoleStream(cont)
    \/ \E typed \in TypedInputs :
         \E edits \in [1..Len(console.action_requests) -> ConsoleEdits] :
            ConsoleAsk(typed, edits)
    \/ ConsoleLoad
    \/ \E env \in MT5Envs : ConsoleTool(env)
    \/ \E cont \in Continuations(Len(req_log) + 1) : ConsoleResume(cont)
    \/ ConsoleFinal

\* A value of handle_approval's decision parameter that is none of the three
\* the buttons pass.
OtherDecisions == {"hold"}

\* The program is run with one of its two front ends: the console, or the GUI
\* with an operator clicking through it, handle_approval taking any decision.
DecideNext ==
    /\ \/ /\ console.pc = "off"
          /\ \E c \in SeqCallers :
                \/ Step(c)
                \/ \E d \in OtherDecisions : \E e \in ApproveInputs : ApprovalEnter(c, d, e)
          /\ UNCHANGED console_vars
       \/ ConsoleStep
    /\ UNCHANGED <<risk_vars, ob_vars, sweep_vars, mss_vars, order_vars>>

(***************************************************************************)
(* The risk calculator calculate_entry_sl_tp (src/app.py).  Prices are in  *)
(* thousandths of a price unit, so that rounding to two decimals is a real *)
(* conversion; a point is given in the same unit (10 is 0.01).             *)
(*                                                                         *)
(* The code computes in binary floating point: a Python float is a double  *)
(* of 53 significant bits, every operation yields the double nearest to    *)
(* the exact result (ties to the even one), and round() rounds the double, *)
(* not the decimal it was written as.  A double is carried exactly, as     *)
(* [neg, m, e] for the value (-1)^neg * m * 2^e; m is a natural number of  *)
(* any size, held as its digits to the base 2^15, lowest first.            *)
(***************************************************************************)
Base == 2^15

Digit(a, i) == IF i \in DOMAIN a THEN a[i] ELSE 0

\* a without its leading zero digits.
NatTrim(a) ==
    LET nz == {i \in DOMAIN a : a[i] # 0}
    IN IF nz = {} THEN <<>>
       ELSE SubSeq(a, 1, CHOOSE i \in nz : \A j \in nz : j <= i)

\* The natural number n < 2^45 and its digits.
NatOf(n) == NatTrim(<<n % Base, (n \div Base) % Base, n \div (Base * Base)>>)

NatInt(a) ==
    IF Len(a) > 3 THEN 2^45
    ELSE Digit(a, 1) + (Base * Digit(a, 2)) + (Base * Base * Digit(a, 3))

\* a + b: a digit gets a carry when a lower digit overflows and the digits
\* between pass the carry on.
NatAdd(a, b) ==
    IF a = <<>> THEN b
    ELSE IF b = <<>> THEN a
    ELSE LET sum(i) == Digit(a, i) + Digit(b, i)
             carry(i) == IF \E j \in 1..(i - 1) :
                               sum(j) >= Base /\ \A k \in (j + 1)..(i - 1) : sum(k) = Base - 1
                         THEN 1 ELSE 0
         IN NatTrim([i \in 1..(Max(Len(a), Len(b)) + 1) |-> (sum(i) + carry(i)) % Base])

\* a - b, for a >= b.
NatSub(a, b) ==
    IF b = <<>> THEN a
    ELSE LET borrow(i) == IF \E j \in 1..(i - 1) :
                                a[j] < Digit(b, j)
                                /\ \A k \in (j + 1)..(i - 1) : a[k] = Digit(b, k)
                          THEN 1 ELSE 0
         IN NatTrim([i \in 1..Len(a) |-> (a[i] - Digit(b, i) - borrow(i)) % Base])

\* -1, 0 or 1 as a is less than, equal to or greater than b.
NatCmp(a, b) ==
    IF Len(a) # Len(b) THEN (IF Len(a) < Len(b) THEN -1 ELSE 1)
    ELSE LET diff == {i \in DOMAIN a : a[i] # b[i]}
         IN IF diff = {} THEN 0
            ELSE LET i == CHOOSE k \in diff : \A j \in diff : j <= k
                 IN IF a[i] < b[i] THEN -1 ELSE 1

\* a * c, for a digit c.
NatTimes(a, c) ==
    IF a = <<>> \/ c = 0 THEN <<>>
    ELSE NatAdd([i \in 1..Len(a) |-> (a[i] * c) % Base],
                <<0>> \o [i \in 1..Len(a) |-> (a[i] * c) \div Base])

\* a * 2^n.
NatShl(a, n) ==
    IF a = <<>> THEN <<>>
    ELSE NatTrim([i \in 1..(n \div 15) |-> 0]
                 \o [i \in 1..(Len(a) + 1) |->
                       ((Digit(a, i) * 2^(n % 15)) % Base)
                       + ((Digit(a, i - 1) * 2^(n % 15)) \div Base)])

\* a \div 2^n.
NatShr(a, n) ==
    IF Len(a) <= n \div 15 THEN <<>>
    ELSE NatTrim([i \in 1..(Len(a) - n \div 15) |->
                     (a[i + n \div 15] \div 2^(n % 15))
                     + ((Digit(a, i + n \div 15 + 1) % 2^(n % 15)) * 2^(15 - (n % 15)))])

\* a % 2^n.
NatLow(a, n) ==
    NatTrim([i \in 1..Min(Len(a), n \div 15 + 1) |->
                IF i <= n \div 15 THEN a[i] ELSE a[i] % 2^(n % 15)])

\* The number of bits of a.
NatBits(a) ==
    IF a = <<>> THEN 0
    ELSE 15 * (Len(a) - 1) + (CHOOSE n \in 1..15 : 2^(n - 1) <= a[Len(a)] /\ a[Len(a)] < 2^n)

(***************************************************************************)
(* Quotient and remainder by long division.  Dividend and divisor are      *)
(* scaled so that the leading digit of the divisor is at least Base / 2;   *)
(* a digit of the quotient is then estimated from the two leading digits   *)
(* of what is left of the dividend, at most 2 too high, and corrected.     *)
(* Every intermediate value is the parameter of an operator.               *)
(***************************************************************************)
\* The digit d and the rest r - d * w, given a digit d not too low and p = d * w.
RECURSIVE DivFix(_, _, _, _)
DivFix(r, w, p, d) ==
    IF NatCmp(p, r) <= 0 THEN [d |-> d, r |-> NatSub(r, p)]
    ELSE DivFix(r, w, NatSub(p, w), d - 1)

DivDigit(r, w, est) == DivFix(r, w, NatTimes(w, est), est)

DivPush(h, f) == [q |-> <<f.d>> \o h.q, r |-> f.r]

\* One more digit of the quotient: h holds the digits found and the rest, w is
\* the divisor moved to the digit's place, top the place of its leading digit
\* lead.
DivStep(h, w, top, lead) ==
    IF h.r = <<>> THEN [q |-> <<0>> \o h.q, r |-> <<>>]
    ELSE DivPush(h, DivDigit(h.r, w,
                             Min(Base - 1,
                                 (Digit(h.r, top + 1) * Base + Digit(h.r, top)) \div lead)))

\* The digits of u \div v from the j-th on, and the rest of u.
RECURSIVE DivFrom(_, _, _)
DivFrom(u, v, j) ==
    IF j > Len(u) - Len(v) THEN [q |-> <<>>, r |-> u]
    ELSE DivStep(DivFrom(u, v, j + 1), [i \in 1..j |-> 0] \o v, j + Len(v), v[Len(v)])

DivResult(h, s) == [q |-> NatTrim(h.q), r |-> NatShr(h.r, s)]

DivScaled(a, b, s) == DivResult(DivFrom(NatShl(a, s), NatShl(b, s), 0), s)

\* [q, r] with a = q * b + r and r < b, for b > 0.
NatDivMod(a, b) ==
    IF NatCmp(a, b) < 0 THEN [q |-> <<>>, r |-> a]
    ELSE DivScaled(a, b, 15 * Len(b) - NatBits(b))

\* q, or q + 1 when the part cut off is above a half (c > 0) or is a half and
\* q is odd.
RoundEven(q, c) ==
    IF c > 0 \/ (c = 0 /\ Digit(q, 1) % 2 = 1) THEN NatAdd(q, <<1>>) ELSE q

\* m * 2^-s rounded to an integer, ties to even.
NatRound(m, s) ==
    RoundEven(NatShr(m, s), NatCmp(NatShl(NatLow(m, s), 1), NatShl(<<1>>, s)))

\* The double nearest to (-1)^neg * m * 2^e: m cut to 53 bits.
Nearest(neg, m, e) ==
    IF NatBits(m) <= 53 THEN [neg |-> neg, m |-> m, e |-> e]
    ELSE [neg |-> neg, m |-> NatRound(m, NatBits(m) - 53), e |-> e + NatBits(m) - 53]

\* float(n) of an integer n.
FromInt(n) == [neg |-> n < 0, m |-> NatOf(Abs(n)), e |-> 0]

\* The sum of (-1)^xneg * a and (-1)^yneg * b, times 2^e.
Signed(xneg, a, yneg, b, e) ==
    Nearest(IF xneg = yneg \/ NatCmp(a, b) >= 0 THEN xneg ELSE yneg,
            IF xneg = yneg THEN NatAdd(a, b)
            ELSE IF NatCmp(a, b) >= 0 THEN NatSub(a, b)
            ELSE NatSub(b, a),
            e)

\* x + y, x - y, abs(x), x * n for a small integer n > 0, x / y (y # 0) and
\* x > 0 of doubles.
Plus(x, y) ==
    Signed(x.neg, NatShl(x.m, x.e - Min(x.e, y.e)),
           y.neg, NatShl(y.m, y.e - Min(x.e, y.e)), Min(x.e, y.e))

Minus(x, y) == Plus(x, [y EXCEPT !.neg = ~y.neg])

Magnitude(x) == [x EXCEPT !.neg = FALSE]

Times(x, n) == Nearest(x.neg, NatTimes(x.m, n), x.e)

\* The quotient h.q with one more bit, set when the division left a rest.
Sticky(h) == NatAdd(NatShl(h.q, 1), IF h.r = <<>> THEN <<>> ELSE <<1>>)

\* x / y from the quotient of x.m * 2^t by y.m, which has 55 bits or more.
OverScaled(x, y, t) ==
    Nearest(x.neg # y.neg, Sticky(NatDivMod(NatShl(x.m, t), y.m)), x.e - y.e - t - 1)

Over(x, y) ==
    IF x.m = <<>> THEN FromInt(0)
    ELSE OverScaled(x, y, Max(0, 55 + NatBits(y.m) - NatBits(x.m)))

Positive(x) == ~x.neg /\ x.m # <<>>

\* float(k / 1000): the double a decimal of three places is read as.
Float(k) == Over(FromInt(k), FromInt(1000))

\* m * 2^e as an integer, rounded to even when it lies halfway between two.
NatScaled(m, e) == IF e >= 0 THEN NatInt(NatShl(m, e)) ELSE NatInt(NatRound(m, 0 - e))

\* round(x, ndigits) of a double, in units of 10^-ndigits: the exact value of
\* the double is rounded, to even when it lies halfway between two decimals.
Round(x, ndigits) ==
    IF x.neg THEN 0 - NatScaled(NatTimes(x.m, 10^ndigits), x.e)
    ELSE NatScaled(NatTimes(x.m, 10^ndigits), x.e)

\* round(x, 2) of a price, in thousandths.
Round2(x) == Round(x, 2) * 10

NoRisk ==
    [returned |-> FALSE, error |-> "", direction |-> "", entry_price |-> 0,
     stop_loss |-> 0, take_profit |-> 0, sl_points |-> 0, tp_points |-> 0,
     risk_reward_ratio |-> 0, risk_pips |-> 0, reward_pips |-> 0, sl_buffer_used |-> 0]

\* The stop: below the level for a buy, above it for a sell, by the buffer.
StopLoss(direction, level, sl_buffer) ==
    IF direction = "buy" THEN Minus(level, sl_buffer) ELSE Plus(level, sl_buffer)

\* Mutant of TakeProfit: a target at once the risk.
TakeProfit_OneToOne(direction, entry_price, sl) ==
    IF direction = "buy"
    THEN Plus(entry_price, Minus(entry_price, sl))
    ELSE Minus(entry_price, Minus(sl, entry_price))

\* The target: twice the risk beyond the entry.
TakeProfit(direction, entry_price, sl) ==
    IF direction = "buy"
    THEN Plus(entry_price, Times(Minus(entry_price, sl), 2))
    ELSE Minus(entry_price, Times(Minus(sl, entry_price), 2))

\* calculate_entry_sl_tp.  point = 0 stands for symbol_info being None.  The
\* result's prices are thousandths rounded to 0.01, its points and pips tenths,
\* its ratio hundredths.
calculate_entry_sl_tp(direction, entry_price, poi_level, mss_level, use_mss_sl, point) ==
    IF point = 0
    THEN [NoRisk EXCEPT !.returned = TRUE, !.error = "Failed to get symbol info"]
    ELSE LET sl_buffer_pips == 20
             pt == Float(point)
             sl_buffer == Times(pt, sl_buffer_pips * 10)
             entry == Float(entry_price)
             sl == StopLoss(direction,
                            Float(IF use_mss_sl THEN mss_level ELSE poi_level),
                            sl_buffer)
             tp == TakeProfit(direction, entry, sl)
             sl_points == Over(Magnitude(Minus(entry, sl)), pt)
             tp_points == Over(Magnitude(Minus(tp, entry)), pt)
             risk_reward == IF Positive(sl_points) THEN Over(tp_points, sl_points)
                            ELSE FromInt(0)
             risk_pips == Over(sl_points, FromInt(10))
             reward_pips == Over(tp_points, FromInt(10))
         IN [returned |-> TRUE,
             error |-> "",
             direction |-> direction,
             entry_price |-> Round2(entry),
             stop_loss |-> Round2(sl),
             take_profit |-> Round2(tp),
             sl_points |-> Round(sl_points, 1),
             tp_points |-> Round(tp_points, 1),
             risk_reward_ratio |-> Round(risk_reward, 2),
             risk_pips |-> Round(risk_pips, 1),
             reward_pips |-> Round(reward_pips, 1),
             sl_buffer_used |-> Round(Over(sl_buffer, pt), 1)]

\* Bound: the entry prices tried are base + 4.000 * i for i up to RiskGrid,
\* each also with a sub-cent residue and on the tie between two cents.
RiskGrid == 3

\* The price ranges tried: doubles between 2048 and 4096 are 2^-41 apart, those
\* between 4096 and 8192 2^-40, those above 8192 2^-39; the last range has
\* entries on both sides of 8192.
RiskBases == {3056000, 4178000, 8190000}

RiskEntries(base) == {base + 4000 * i + r : i \in 0..RiskGrid, r \in {0, 4, 5}}
RiskLevels(base) == {base + 2000, base + 2003, base + 2005}
\* 0.01 (XAUUSD), 0.001, and 0 for symbol_info being None.
RiskPoints == {10, 1, 0}

RiskInputs ==
    UNION {[direction : {"buy", "sell"}, entry_price : RiskEntries(base),
            poi_level : RiskLevels(base), mss_level : {base + 2000, base + 8000},
            use_mss_sl : BOOLEAN, point : RiskPoints] : base \in RiskBases}

NoRiskInput ==
    [direction |-> "", entry_price |-> 0, poi_level |-> 0, mss_level |-> 0,
     use_mss_sl |-> FALSE, point |-> 0]

RiskInit == risk_in = NoRiskInput /\ risk_out = NoRisk

\* The agent calls the tool with some arguments.
RiskCall(in) ==
    /\ ~risk_out.returned
    /\ risk_in' = in
    /\ risk_out' = calculate_entry_sl_tp(in.direction, in.entry_price, in.poi_level,
                                         in.mss_level, in.use_mss_sl, in.point)
    /\ UNCHANGED <<gate_vars, ob_vars, sweep_vars, mss_vars, order_vars, console_vars>>

RiskNext == \E in \in RiskInputs : RiskCall(in)

(***************************************************************************)
(* The order block detector, identify_order_blocks (src/app.py).           *)
(* A candle is a row of the rates MT5 returns; its time is its position in *)
(* the feed.  Prices are whole price units.                                *)
(***************************************************************************)
MaxCandles == 3
MaxFeed == 13

Prices == 1..3

\* The candles of the price grid: low <= open, close <= high.
Shapes ==
    {c \in [open : Prices, high : Prices, low : Prices, close : Prices] :
        /\ c.low <= c.open /\ c.open <= c.high
        /\ c.low <= c.close /\ c.close <= c.high}

\* A candle low in the range and one that gaps above it: these two alternating
\* put an order block on every triple.
SwingLow == [open |-> 1, high |-> 2, low |-> 1, close |-> 2]
SwingHigh == [open |-> 3, high |-> 4, low |-> 3, close |-> 4]

\* The rows of the frame: each candle with its time.
Stamp(shapes) ==
    [k \in 1..Len(shapes) |->
        [time |-> k, open |-> shapes[k].open, high |-> shapes[k].high,
         low |-> shapes[k].low, close |-> shapes[k].close]]

Timeframes == {"15M", "1H", "4H", "D1"}
Directions == {"bullish", "bearish", "both"}

OBInput(ok, shapes, timeframe, direction) ==
    [ok |-> ok, rates |-> Stamp(shapes), timeframe |-> timeframe, direction |-> direction]

\* The calls: every short series of grid candles on the default timeframe, every
\* feed of swing candles on every timeframe, and a fetch that fails.
IsOBInput(in) ==
    \/ \E n \in 0..MaxCandles : \E s \in [1..n -> Shapes] : \E d \in Directions :
          in = OBInput(TRUE, s, "4H", d)
    \/ \E n \in 0..MaxFeed : \E s \in [1..n -> {SwingLow, SwingHigh}] :
          \E tf \in Timeframes : \E d \in Directions :
             in = OBInput(TRUE, s, tf, d)
    \/ \E tf \in Timeframes : \E d \in Directions : in = OBInput(FALSE, <<>>, tf, d)

NoOBInput == [ok |-> FALSE, rates |-> <<>>, timeframe |-> "", direction |-> ""]

NoOB ==
    [returned |-> FALSE, error |-> "", symbol |-> "", timeframe |-> "",
     order_blocks_found |-> 0, order_blocks |-> <<>>]

Strength(timeframe) ==
    IF timeframe \in {"4H", "D1"} THEN "reversal" ELSE "continuation"

\* candle2 closes above candle1's high, opens with a gap above it, and candle3
\* comes back to it.
IsBullishOB(candle1, candle2, candle3) ==
    /\ candle2.close > candle1.high
    /\ candle2.open - candle1.high > 0
    /\ candle3.low <= candle1.high

IsBearishOB(candle1, candle2, candle3) ==
    /\ candle2.close < candle1.low
    /\ candle1.low - candle2.open > 0
    /\ candle3.high >= candle1.low

BullishOB(df, timeframe, candle1, candle2) ==
    [type |-> "bullish_ob", timeframe |-> timeframe, time |-> candle1.time,
     zone_low |-> candle1.low, zone_high |-> candle1.high,
     gap_size |-> candle2.open - candle1.high,
     strength |-> Strength(timeframe),
     current_price_distance |-> df[Len(df)].close - candle1.high]

\* Mutant of BearishOB: the distance with the sign of the bullish one.
BearishOB_SameSign(df, timeframe, candle1, candle2) ==
    [type |-> "bearish_ob", timeframe |-> timeframe, time |-> candle1.time,
     zone_low |-> candle1.low, zone_high |-> candle1.high,
     gap_size |-> candle1.low - candle2.open,
     strength |-> Strength(timeframe),
     current_price_distance |-> df[Len(df)].close - candle1.low]

BearishOB(df, timeframe, candle1, candle2) ==
    [type |-> "bearish_ob", timeframe |-> timeframe, time |-> candle1.time,
     zone_low |-> candle1.low, zone_high |-> candle1.high,
     gap_size |-> candle1.low - candle2.open,
     strength |-> Strength(timeframe),
     current_price_distance |-> candle1.low - df[Len(df)].close]

\* One pass of the loop body, at row i (candle3): what it appends.
BlocksAt(df, timeframe, direction, i) ==
    LET candle1 == df[i - 2]
        candle2 == df[i - 1]
        candle3 == df[i]
    IN  (IF direction \in {"bullish", "both"} /\ IsBullishOB(candle1, candle2, candle3)
         THEN <<BullishOB(df, timeframe, candle1, candle2)>> ELSE <<>>)
        \o
        (IF direction \in {"bearish", "both"} /\ IsBearishOB(candle1, candle2, candle3)
         THEN <<BearishOB(df, timeframe, candle1, candle2)>> ELSE <<>>)

\* The loop over the rows from the third to row n.
RECURSIVE ScanOrderBlocks(_, _, _, _)
ScanOrderBlocks(df, timeframe, direction, n) ==
    IF n < 3 THEN <<>>
    ELSE ScanOrderBlocks(df, timeframe, direction, n - 1)
         \o BlocksAt(df, timeframe, direction, n)

KeepLast == 10

\* Mutant of LastN: the first n entries, a slice [:n].
LastN_First(s, n) == SubSeq(s, 1, Min(n, Len(s)))

\* The slice s[-n:].
LastN(s, n) == SubSeq(s, Len(s) - Min(n, Len(s)) + 1, Len(s))

identify_order_blocks(ok, rates, timeframe, direction) ==
    IF ~ok
    THEN [NoOB EXCEPT !.returned = TRUE, !.error = "Error: Failed to fetch data"]
    ELSE LET order_blocks == ScanOrderBlocks(rates, timeframe, direction, Len(rates))
         IN  [returned |-> TRUE, error |-> "", symbol |-> SYMBOL, timeframe |-> timeframe,
              order_blocks_found |-> Len(order_blocks),
              order_blocks |-> LastN(order_blocks, KeepLast)]

OBIdle == ob_in = NoOBInput /\ ob_out = NoOB

OBInit == IsOBInput(ob_in) /\ ob_out = NoOB

\* The agent calls the tool.
OBCall ==
    /\ ~ob_out.returned
    /\ ob_out' = identify_order_blocks(ob_in.ok, ob_in.rates, ob_in.timeframe,
                                       ob_in.direction)
    /\ UNCHANGED <<ob_in, gate_vars, risk_vars, sweep_vars, mss_vars, order_vars, console_vars>>

OBNext == OBCall

(***************************************************************************)
(* The liquidity sweep detector, detect_liquidity_sweep (src/app.py).      *)
(* Rows are numbered from 1: row r is the candle at index r - 1.           *)
(***************************************************************************)
MaxTail == 7

\* The five candles the first window holds: lows at 12, highs at 18.
Flat == [open |-> 15, high |-> 18, low |-> 12, close |-> 15]

\* The candles that may follow, k candles after the first window: one without
\* range, a rising one inside the range, one with a wick below every earlier
\* low, one with wicks beyond both sides, and a falling one with a small body
\* that closes below every earlier low under a wick above every earlier high.
Quiet == [open |-> 15, high |-> 15, low |-> 15, close |-> 15]
Rising == [open |-> 14, high |-> 16, low |-> 14, close |-> 16]
WickDown(k) == [open |-> 15, high |-> 15, low |-> 12 - k, close |-> 15]
WickBoth(k) == [open |-> 15, high |-> 18 + k, low |-> 12 - k, close |-> 15]
Rejected(k) == [open |-> 12 - k, high |-> 18 + k, low |-> 11 - k, close |-> 11 - k]

TailKinds == {"quiet", "rising", "wick_down", "wick_both", "rejected"}
TailShape(kind, k) ==
    CASE kind = "quiet" -> Quiet
      [] kind = "rising" -> Rising
      [] kind = "wick_down" -> WickDown(k)
      [] kind = "wick_both" -> WickBoth(k)
      [] kind = "rejected" -> Rejected(k)

SweepInput(ok, shapes) == [ok |-> ok, rates |-> Stamp(shapes)]

\* The calls: the first window followed by up to MaxTail candles, and a fetch
\* that fails.
IsSweepInput(in) ==
    \/ \E n \in 0..MaxTail :
          \E kinds \in [1..n -> TailKinds] :
             in = SweepInput(TRUE, <<Flat, Flat, Flat, Flat, Flat>>
                                   \o [k \in 1..n |-> TailShape(kinds[k], k)])
    \/ in = SweepInput(FALSE, <<>>)

NoSweepInput == [ok |-> FALSE, rates |-> <<>>]

NoSweeps ==
    [returned |-> FALSE, fault |-> "", error |-> "", symbol |-> "",
     sweeps_detected |-> 0, recent_sweeps |-> <<>>, current_price |-> 0]

\* A quotient of two numbers, a / b, and the fault of dividing by zero.
Quotient(a, b) == [fault |-> FALSE, num |-> a, den |-> b]
Div(a, b) == IF b = 0 THEN [fault |-> TRUE, num |-> 0, den |-> 1] ELSE Quotient(a, b)

\* Mutant of RecentLows: the window with the current candle in it.
RecentLows_WithCurrent(df, a, b) ==
    CHOOSE m \in {df[k].low : k \in a..(b + 1)} : \A k \in a..(b + 1) : m <= df[k].low

\* df.iloc[a:b]['low'].min() and ['high'].max(), over rows a to b.
RecentLows(df, a, b) ==
    CHOOSE m \in {df[k].low : k \in a..b} : \A k \in a..b : m <= df[k].low
RecentHighs(df, a, b) ==
    CHOOSE m \in {df[k].high : k \in a..b} : \A k \in a..b : m >= df[k].high

\* Mutant of Next1: the candle after the next one.
Next1_Next2(df, row) == df[row + 2]

\* next1, the candle that confirms the one at the row.
Next1(df, row) == df[row + 1]

BodySize(candle) == Abs(candle.close - candle.open)

\* Mutant of BodyRatio: the quotient without the test of the range.
BodyRatio_Unguarded(current) ==
    Div(BodySize(current), current.high - current.low)

\* body_ratio: the body over the range, 0 for a candle without range.
BodyRatio(current) ==
    LET candle_range == current.high - current.low
    IN  IF candle_range > 0 THEN Div(BodySize(current), candle_range)
        ELSE Quotient(0, 1)

BullishWickSweep(recent_lows, current, next1) ==
    [type |-> "bullish_liq_sweep", condition |-> "wick_sweep",
     sweep_time |-> current.time, swept_level |-> recent_lows,
     sweep_low |-> current.low, close_price |-> current.close,
     confirmation_candle |-> next1.time, valid |-> TRUE]

TwoCandleRejection(recent_lows, current, next1, body_ratio, inverse) ==
    [type |-> "bullish_liq_sweep", condition |-> "two_candle_rejection",
     sweep_time |-> current.time, swept_level |-> recent_lows,
     first_candle_body_ratio |-> <<body_ratio.num, body_ratio.den>>,
     second_candle_inverse |-> <<inverse.num, inverse.den>>,
     confirmation_candle |-> next1.time, valid |-> TRUE]

BearishWickSweep(recent_highs, current, next1) ==
    [type |-> "bearish_liq_sweep", condition |-> "wick_sweep",
     sweep_time |-> current.time, swept_level |-> recent_highs,
     sweep_high |-> current.high, close_price |-> current.close,
     confirmation_candle |-> next1.time, valid |-> TRUE]

\* Mutant of RowSweeps: the three tests as one if / elif chain.
RowSweeps_FirstOnly(bullish_wick, rejection, bearish_wick) ==
    IF bullish_wick # <<>> THEN bullish_wick
    ELSE IF rejection # <<>> THEN rejection ELSE bearish_wick

\* What the three tests of one pass append to the list, each on its own.
RowSweeps(bullish_wick, rejection, bearish_wick) ==
    bullish_wick \o rejection \o bearish_wick

\* One pass of the loop body, at the row of the current candle: what it appends,
\* and whether a division faulted.
SweepsAt(df, row) ==
    LET current == df[row]
        next1 == Next1(df, row)
        recent_lows == RecentLows(df, row - 5, row - 1)
        recent_highs == RecentHighs(df, row - 5, row - 1)
        body_size == BodySize(current)
        body_ratio == BodyRatio(current)
        next_body == BodySize(next1)
        rejected ==
            /\ ~body_ratio.fault
            /\ current.close < current.open
            /\ 10 * body_ratio.num <= 3 * body_ratio.den
            /\ current.close < recent_lows
            /\ next1.close > next1.open
            /\ next1.close > recent_lows
            /\ 10 * next_body >= 4 * body_size
        inverse == IF rejected THEN Div(next_body, body_size) ELSE Quotient(0, 1)
    IN  [fault |-> body_ratio.fault \/ inverse.fault,
         sweeps |-> RowSweeps(
            IF /\ current.low < recent_lows /\ current.close > recent_lows
               /\ next1.close > recent_lows /\ next1.low > recent_lows
            THEN <<BullishWickSweep(recent_lows, current, next1)>> ELSE <<>>,
            IF rejected /\ ~inverse.fault
            THEN <<TwoCandleRejection(recent_lows, current, next1, body_ratio, inverse)>>
            ELSE <<>>,
            IF /\ ~body_ratio.fault /\ ~inverse.fault
               /\ current.high > recent_highs /\ current.close < recent_highs
               /\ next1.close < recent_highs /\ next1.high < recent_highs
            THEN <<BearishWickSweep(recent_highs, current, next1)>> ELSE <<>>)]

\* The loop, over the rows from the sixth to row n; it ends at the first fault.
RECURSIVE ScanSweeps(_, _)
ScanSweeps(df, n) ==
    IF n < 6 THEN [fault |-> FALSE, sweeps |-> <<>>]
    ELSE LET before == ScanSweeps(df, n - 1)
             here == SweepsAt(df, n)
         IN  IF before.fault THEN before
             ELSE [fault |-> here.fault, sweeps |-> before.sweeps \o here.sweeps]

RecentSweeps == 5

\* The sweeps list when the function ends.
SweepsFound(ok, rates) ==
    IF ok THEN ScanSweeps(rates, Len(rates) - 2).sweeps ELSE <<>>

detect_liquidity_sweep(ok, rates) ==
    IF ~ok
    THEN [NoSweeps EXCEPT !.returned = TRUE, !.error = "Error: Failed to fetch 15M data"]
    ELSE LET scan == ScanSweeps(rates, Len(rates) - 2)
         IN  IF scan.fault
             THEN [NoSweeps EXCEPT !.returned = TRUE, !.fault = "ZeroDivisionError"]
             ELSE IF Len(rates) = 0
             THEN [NoSweeps EXCEPT !.returned = TRUE, !.fault = "IndexError"]
             ELSE [returned |-> TRUE, fault |-> "", error |-> "", symbol |-> SYMBOL,
                   sweeps_detected |-> Len(scan.sweeps),
                   recent_sweeps |-> LastN(scan.sweeps, RecentSweeps),
                   current_price |-> rates[Len(rates)].close]

SweepIdle == sweep_in = NoSweepInput /\ sweeps = <<>> /\ sweep_out = NoSweeps

SweepInit == IsSweepInput(sweep_in) /\ sweeps = <<>> /\ sweep_out = NoSweeps

\* The agent calls the tool.
SweepCall ==
    /\ ~sweep_out.returned
    /\ sweeps' = SweepsFound(sweep_in.ok, sweep_in.rates)
    /\ sweep_out' = detect_liquidity_sweep(sweep_in.ok, sweep_in.rates)
    /\ UNCHANGED <<sweep_in, gate_vars, risk_vars, ob_vars, mss_vars, order_vars, console_vars>>

SweepNext == SweepCall

(***************************************************************************)
(* The structure shift locator, find_mss_and_poi (src/app.py).             *)
(* Rows are numbered from 1: row r is the candle at index r - 1.           *)
(***************************************************************************)
MaxBars == 4

\* The candles of the 1-minute feed: two without range, a low one, two rising
\* ones above it, a falling one and a wide one.
Bars ==
    {[open |-> 1, high |-> 1, low |-> 1, close |-> 1],
     [open |-> 2, high |-> 2, low |-> 2, close |-> 2],
     [open |-> 2, high |-> 3, low |-> 1, close |-> 2],
     [open |-> 3, high |-> 4, low |-> 3, close |-> 4],
     [open |-> 3, high |-> 5, low |-> 3, close |-> 5],
     [open |-> 3, high |-> 3, low |-> 2, close |-> 2],
     [open |-> 4, high |-> 5, low |-> 2, close |-> 4]}

\* sweep_candle_time is the time of a candle of the series, or 0 for None.
MSSInput(ok, shapes, sweep_candle_time) ==
    [ok |-> ok, rates |-> Stamp(shapes), sweep_candle_time |-> sweep_candle_time]

IsMSSInput(in) ==
    \/ \E n \in 0..MaxBars : \E s \in [1..n -> Bars] : \E t \in 0..n :
          in = MSSInput(TRUE, s, t)
    \/ in = MSSInput(FALSE, <<>>, 0)

NoMSSInput == [ok |-> FALSE, rates |-> <<>>, sweep_candle_time |-> 0]

NoMSS ==
    [returned |-> FALSE, fault |-> "", error |-> "", symbol |-> "",
     mss_found |-> FALSE, mss_level |-> 0, mss_time |-> 0,
     mss_zone |-> [start |-> 0, end |-> 0],
     pois_in_zone |-> 0, pois |-> <<>>, current_price |-> 0]

\* df['low'].idxmin(): the first row with the lowest low.
LowestRow(df) ==
    CHOOSE r \in DOMAIN df :
        /\ \A k \in DOMAIN df : df[r].low <= df[k].low
        /\ \A k \in 1..(r - 1) : df[k].low > df[r].low

\* Mutant of RunningHigh: only the high of the candle before the row.
RunningHigh_PriorOnly(df, lowest_row, row) == df[row - 1].high

\* recent_high when the loop looks at the row: the highest high from the lowest
\* row to the row before it.
RunningHigh(df, lowest_row, row) ==
    CHOOSE m \in {df[k].high : k \in lowest_row..(row - 1)} :
        \A k \in lowest_row..(row - 1) : m >= df[k].high

\* Mutant of ShiftRows: a high that touches the running high counts.
ShiftRows_Touching(df, lowest_row) ==
    {r \in (lowest_row + 1)..Len(df) :
        \A k \in lowest_row..(r - 1) : df[r].high >= df[k].high}

\* The rows after the lowest one whose high exceeds the running high; the loop
\* stops at the first.
ShiftRows(df, lowest_row) ==
    {r \in (lowest_row + 1)..Len(df) : df[r].high > RunningHigh(df, lowest_row, r)}

FirstRow(rows) == CHOOSE r \in rows : \A k \in rows : r <= k

PoiWindow == 50
RecentPois == 5

FVG(c1, c3) ==
    [type |-> "FVG", time |-> c3.time, zone_low |-> c1.high, zone_high |-> c3.low,
     gap_size |-> c3.low - c1.high]

PoiOrderBlock(prev) ==
    [type |-> "Order_Block", time |-> prev.time, zone_low |-> prev.low,
     zone_high |-> prev.high]

\* One pass of the second loop, at the row of the candle: what it appends.
PoisAt(df, row, mss_zone_start, mss_zone_end) ==
    LET candle == df[row]
    IN  IF mss_zone_start <= candle.low /\ candle.low <= mss_zone_end
        THEN (IF row >= 3 /\ candle.low - df[row - 2].high > 0
              THEN <<FVG(df[row - 2], candle)>> ELSE <<>>)
             \o
             (IF row > 1 /\ candle.close > df[row - 1].high
              THEN <<PoiOrderBlock(df[row - 1])>> ELSE <<>>)
        ELSE <<>>

\* Mutant of LastPoiRow: the loop without its break at the last row.
LastPoiRow_NoBreak(df, lowest_row) == Min(lowest_row + PoiWindow - 1, Len(df))

\* The last row the second loop reaches: it goes over PoiWindow rows from the
\* lowest one and breaks at the last row of the frame.
LastPoiRow(df, lowest_row) == Min(lowest_row + PoiWindow - 1, Len(df) - 1)

RECURSIVE ScanPois(_, _, _, _, _)
ScanPois(df, lowest_row, row, mss_zone_start, mss_zone_end) ==
    IF row < lowest_row THEN <<>>
    ELSE ScanPois(df, lowest_row, row - 1, mss_zone_start, mss_zone_end)
         \o PoisAt(df, row, mss_zone_start, mss_zone_end)

\* sweep_candle_time is not read.
find_mss_and_poi(ok, rates, sweep_candle_time) ==
    IF ~ok
    THEN [NoMSS EXCEPT !.returned = TRUE,
                       !.error = "Error: Failed to fetch 1M data for MSS analysis"]
    ELSE IF Len(rates) = 0
    THEN [NoMSS EXCEPT !.returned = TRUE, !.fault = "ValueError"]
    ELSE LET lowest_row == LowestRow(rates)
             shifts == ShiftRows(rates, lowest_row)
         IN  IF shifts = {}
             THEN [NoMSS EXCEPT !.returned = TRUE, !.error = "No MSS detected yet"]
             ELSE LET shift_row == FirstRow(shifts)
                      mss_level == RunningHigh(rates, lowest_row, shift_row)
                      mss_zone_start == rates[lowest_row].low
                      pois == ScanPois(rates, lowest_row, LastPoiRow(rates, lowest_row),
                                       mss_zone_start, mss_level)
                  IN  [returned |-> TRUE, fault |-> "", error |-> "",
                       symbol |-> SYMBOL, mss_found |-> TRUE,
                       mss_level |-> mss_level,
                       mss_time |-> rates[shift_row].time,
                       mss_zone |-> [start |-> mss_zone_start, end |-> mss_level],
                       pois_in_zone |-> Len(pois),
                       pois |-> LastN(pois, RecentPois),
                       current_price |-> rates[Len(rates)].close]

MSSIdle == mss_in = NoMSSInput /\ mss_out = NoMSS

MSSInit == IsMSSInput(mss_in) /\ mss_out = NoMSS

\* The agent calls the tool.
MSSCall ==
    /\ ~mss_out.returned
    /\ mss_out' = find_mss_and_poi(mss_in.ok, mss_in.rates, mss_in.sweep_candle_time)
    /\ UNCHANGED <<mss_in, gate_vars, risk_vars, ob_vars, sweep_vars, order_vars, console_vars>>

MSSNext == MSSCall

(***************************************************************************)
(* send_order called on its own: the arguments the agent passes and the    *)
(* answers of the terminal are drawn, and the call records every request   *)
(* mt5.order_send received together with the JSON object returned.         *)
(***************************************************************************)
\* The answers of the terminal: symbol_info None (then nothing else is asked),
\* or its visible flag, what symbol_select returns, the tick and order_send's result.
OrderEnvs ==
    {MT5Env(FALSE, FALSE, FALSE, t, r) : t \in Ticks \cup {NoTick}, r \in Retcodes}
    \cup {MT5Env(TRUE, v, s, t, r) :
             v \in BOOLEAN, s \in BOOLEAN, t \in Ticks \cup {NoTick}, r \in Retcodes}

OrderCalls == Proposed \cup {OrderArgs("buy", 4192, 4180, 4220, 2),
                             OrderArgs("sell", 4192, 4204, 4164, 2)}

NoOrderInput == [args |-> NoArgs, env |-> MT5Env(FALSE, FALSE, FALSE, NoTick, "None")]
NoOrderOutput == [returned |-> FALSE, sent |-> <<>>, response |-> ErrorResponse("")]

\* Mutant of OrderSends: a request that was not executed is sent once more.
OrderSends_Retry(out) ==
    IF out.submitted
    THEN IF out.response.success THEN <<out.request>> ELSE <<out.request, out.request>>
    ELSE <<>>

\* The requests mt5.order_send receives during one call of send_order.
OrderSends(out) == IF out.submitted THEN <<out.request>> ELSE <<>>

OrderIdle == order_in = NoOrderInput /\ order_out = NoOrderOutput

OrderInit ==
    /\ \E a \in OrderCalls : \E e \in OrderEnvs : order_in = [args |-> a, env |-> e]
    /\ order_out = NoOrderOutput

\* The tool runs (after approval).
OrderCall ==
    /\ ~order_out.returned
    /\ LET out == send_order(order_in.args, order_in.env)
       IN order_out' = [returned |-> TRUE, sent |-> OrderSends(out),
                        response |-> out.response]
    /\ UNCHANGED <<order_in, gate_vars, risk_vars, ob_vars, sweep_vars, mss_vars, console_vars>>

OrderNext == OrderCall

(***************************************************************************)
(* The specifications: the approval gate (its callbacks one after the      *)
(* other, or interleaved), the two front ends, and each tool on its own,   *)
(* with the other parts at rest.                                           *)
(***************************************************************************)
Init == GateInit /\ RiskInit /\ OBIdle /\ SweepIdle /\ MSSIdle /\ OrderIdle /\ ConsoleOff

SpecRisk == Init /\ [][RiskNext]_vars

InitOB == GateInit /\ RiskInit /\ OBInit /\ SweepIdle /\ MSSIdle /\ OrderIdle /\ ConsoleOff

SpecOB == InitOB /\ [][OBNext]_vars

InitSweep == GateInit /\ RiskInit /\ OBIdle /\ SweepInit /\ MSSIdle /\ OrderIdle /\ ConsoleOff

SpecSweep == InitSweep /\ [][SweepNext]_vars

InitMSS == GateInit /\ RiskInit /\ OBIdle /\ SweepIdle /\ MSSInit /\ OrderIdle /\ ConsoleOff

SpecMSS == InitMSS /\ [][MSSNext]_vars

\* The three detectors on one series of no, one or two candles.
InitShort ==
    /\ GateInit /\ RiskInit /\ OrderIdle /\ ConsoleOff
    /\ ob_out = NoOB /\ sweeps = <<>> /\ sweep_out = NoSweeps /\ mss_out = NoMSS
    /\ \E n \in 0..2 : \E s \in [1..n -> Shapes] : \E d \in Directions :
          /\ ob_in = OBInput(TRUE, s, "4H", d)
          /\ sweep_in = SweepInput(TRUE, s)
          /\ mss_in = MSSInput(TRUE, s, 0)

ShortNext == OBCall \/ SweepCall \/ MSSCall

SpecShort == InitShort /\ [][ShortNext]_vars

InitOrder == GateInit /\ RiskInit /\ OBIdle /\ SweepIdle /\ MSSIdle /\ OrderInit /\ ConsoleOff

SpecOrder == InitOrder /\ [][OrderNext]_vars

Spec == Init /\ [][Next]_vars

SpecConc == Init /\ [][ConcNext]_vars

InitDecide ==
    /\ GateInit /\ RiskInit /\ OBIdle /\ SweepIdle /\ MSSIdle /\ OrderIdle
    /\ ConsoleOff \/ ConsoleReady

SpecDecide == InitDecide /\ [][DecideNext]_vars

(***************************************************************************)
(* The approval gate's claims.                                             *)
(***************************************************************************)
Quiescent == \A c \in Callers : pc[c] = "idle"

\* The number of send_order calls made for request k, and of orders the sink got.
CallsFor(k) == Cardinality({i \in DOMAIN calls : calls[i].req = k})
OrdersFor(k) == Cardinality({i \in DOMAIN sink : sink[i].req = k})

Held(k) == \E i \in DOMAIN pending_interrupt : pending_interrupt[i].id = k

\* A request a handler has received from the agent and is about to store.
InHand(k) ==
    \E c \in Callers :
        /\ pc[c] \in {"run_finish", "approval_finish"}
        /\ frame[c].stream.has_interrupt
        /\ \E i \in DOMAIN frame[c].stream.interrupt_data :
              frame[c].stream.interrupt_data[i].id = k

\* A request whose send_order call a stream under way has still to make.
ToCall(k) ==
    \/ \E c \in Callers : \E i \in DOMAIN ResumeCalls(c) :
          i > frame[c].done /\ ResumeCalls(c)[i].req = k
    \/ \E i \in DOMAIN ConsoleCalls : i > console.done /\ ConsoleCalls[i].req = k

\* C1 (as amended): the sink receives an order only for a request resolved with
\* approve or edit.  Each such request gets exactly one send_order call (made
\* by the time the resumed stream ends), which submits at most one order (none
\* when send_order returns early on missing symbol info, a failed symbol_select
\* or a missing tick); a rejected, ignored or unresolved request gets no call
\* and no order.
C1_OrdersOnlyFromApproval ==
    /\ \A i \in DOMAIN sink : sink[i].req \in DOMAIN req_log
    /\ \A i \in DOMAIN calls : calls[i].req \in DOMAIN req_log
    /\ \A k \in DOMAIN req_log :
          IF req_log[k].state \in {"approved", "edited"}
          THEN /\ CallsFor(k) = IF ToCall(k) THEN 0 ELSE 1
               /\ OrdersFor(k) <= 1
               /\ OrdersFor(k) = 1 <=> \E i \in DOMAIN calls :
                                          calls[i].req = k /\ calls[i].submitted
          ELSE CallsFor(k) = 0 /\ OrdersFor(k) = 0

\* C1 as stated: every approved or edited request has exactly one order in the
\* sink (once its send_order call is made), every other request none.
C1_ExactlyOneOrder ==
    \A k \in DOMAIN req_log :
        OrdersFor(k) = IF req_log[k].state \in {"approved", "edited"} /\ ~ToCall(k)
                       THEN 1 ELSE 0

\* C1 witness: one request approved with its order in the sink, another rejected
\* with none, all handlers returned.
C1_Witness ==
    /\ Quiescent
    /\ \E k \in DOMAIN req_log : req_log[k].state = "approved" /\ OrdersFor(k) = 1
    /\ \E k \in DOMAIN req_log : req_log[k].state = "rejected" /\ OrdersFor(k) = 0

\* C2: handle_approval gets past its guard only with unresolved requests pending;
\* with none pending it returns the "no pending trade approval" warning and
\* resumes nothing: the gate, the checkpoint, the history and the sink stay as
\* they are.
C2_ResolvedNotResolvedAgain ==
    [][\A c \in Callers :
          /\ (pc[c] = "idle" /\ pc'[c] = "approval_read")
                => /\ pending_interrupt # None
                   /\ \A i \in DOMAIN pending_interrupt :
                         req_log[pending_interrupt[i].id].state = "pending"
          /\ (pc[c] = "idle" /\ pending_interrupt = None /\ pc'[c] # "run_begin"
              /\ <<pc[c], result[c]>> # <<pc'[c], result'[c]>>)
                => /\ result'[c] = "no_pending"
                   /\ UNCHANGED <<agent, current_thread_id, is_running,
                                  pending_interrupt, checkpoint, sink, req_log, calls,
                                  pc>>]_vars

\* C2 witness: a request was approved and its order sent, and a second decision
\* was then answered with the warning.
C2_Witness ==
    /\ \E c \in Callers : result[c] = "no_pending" /\ pc[c] = "idle"
    /\ pending_interrupt = None
    /\ \E k \in DOMAIN req_log : req_log[k].state = "approved" /\ OrdersFor(k) = 1

\* The requests of thread t that no decision has reached.
PendingOn(log, t) == {k \in DOMAIN log : log[k].thread = t /\ log[k].state = "pending"}

\* C3 as stated: a request is submitted for a thread only when no other request
\* of that thread is pending, so that a thread never has more than one pending
\* request.
C3_SubmitFailsWhilePending ==
    [][\A k \in DOMAIN req_log' \ DOMAIN req_log :
          PendingOn(req_log', req_log'[k].thread) = {k}]_vars

\* C4 as stated: a request that no decision has reached yet is held by the gate
\* (or is on its way into it).
C4_PendingUntilDecided ==
    \A k \in DOMAIN req_log : req_log[k].state = "pending" => Held(k) \/ InHand(k)

\* C5 (as amended): the order sent for an edited request carries the stop-loss,
\* take-profit and size of the edited call and the direction of the edited call
\* (the proposed one after a GUI edit, the retyped one after a console edit); its
\* price is the current tick (ask for a buy order, bid for a sell order), not
\* the edited entry.
C5_EditedOrderValues ==
    \A i \in DOMAIN sink :
        LET r == req_log[sink[i].req]
            o == sink[i].order
        IN r.state = "edited" =>
              /\ o.sl = r.decided.sl_price
              /\ o.tp = r.decided.tp_price
              /\ o.volume = r.decided.lot_size
              /\ o.type = (IF r.decided.direction = "buy" THEN "ORDER_TYPE_BUY"
                           ELSE "ORDER_TYPE_SELL")
              /\ \E t \in Ticks :
                    o.price = IF o.type = "ORDER_TYPE_BUY" THEN t.ask ELSE t.bid
              /\ o.price # r.decided.entry_price

\* C5 as stated: the order of an edited request carries the edited entry,
\* stop-loss, take-profit and size.
C5_EditedOrderCarriesEntry ==
    \A i \in DOMAIN sink :
        LET r == req_log[sink[i].req]
            o == sink[i].order
        IN r.state = "edited" =>
              /\ o.price = r.decided.entry_price
              /\ o.sl = r.decided.sl_price
              /\ o.tp = r.decided.tp_price
              /\ o.volume = r.decided.lot_size

\* C5 witness: an order sent after a console edit that retyped the direction and
\* every value: it is a sell at the bid for a request proposed as a buy, and its
\* stop-loss, take-profit and size are the retyped ones.
C5_Witness ==
    \E i \in DOMAIN sink :
        LET r == req_log[sink[i].req]
            o == sink[i].order
        IN /\ r.state = "edited"
           /\ console.pc # "off"
           /\ r.args.direction = "buy" /\ o.type = "ORDER_TYPE_SELL"
           /\ r.decided.entry_price # r.args.entry_price
           /\ o.sl = r.decided.sl_price /\ o.sl # r.args.sl_price
           /\ o.tp = r.decided.tp_price /\ o.tp # r.args.tp_price
           /\ o.volume = r.decided.lot_size /\ o.volume # r.args.lot_size
           /\ o.price # r.decided.entry_price

(***************************************************************************)
(* The approval gate's claims about runs and concurrent callbacks.         *)
(***************************************************************************)
\* The positions of a run past its guard.
RunLabels ==
    {"run_begin", "run_clear", "run_check", "run_init", "run_thread", "run_stream",
     "run_streaming", "run_finish", "run_finally"}

\* C22: when run_agent_analysis returns (with a pending interrupt, complete,
\* after a failed initialization or after an exception) is_running is false,
\* so that the guard of a later run passes, whether or not a request is pending.
C22_ReturnedRunNotRunning ==
    [][\A c \in Callers :
          (pc[c] \in RunLabels /\ pc'[c] = "idle")
             => /\ result'[c] \in {"pending", "complete", "init_failed", "error"}
                /\ ~is_running']_vars

\* C22 witness: a run left a request pending and returned, and the next run is
\* past the guard while the request is still pending and unresolved.
C22_Witness ==
    /\ pending_interrupt # None
    /\ \A i \in DOMAIN pending_interrupt :
          req_log[pending_interrupt[i].id].state = "pending"
    /\ \E c \in Callers : result[c] = "pending"
    /\ \E c \in Callers : pc[c] = "run_begin"
    /\ \A c \in Callers : pc[c] \in {"idle", "run_begin"}
    /\ ~is_running

\* C26 as stated: however two handle_approval calls for one pending request
\* interleave, the tool call of a request is made at most once and the sink
\* gets at most one order for it.
C26_OneResumePerRequest ==
    \A k \in DOMAIN req_log : CallsFor(k) <= 1 /\ OrdersFor(k) <= 1

\* C27 as stated: at most one run is past the is_running guard at any time, and
\* a call arriving while a run is past the guard returns the warning and
\* changes nothing of the gate.
C27_OneRunPastGuard ==
    [][/\ Cardinality({c \in Callers : pc'[c] \in RunLabels}) <= 1
       /\ \A c \in Callers :
             (pc[c] = "idle" /\ pc'[c] = "run_begin")
                => \A d \in Callers : pc[d] \notin RunLabels]_vars

\* The thread that raised request k.
RaisedBy(k) == req_log[k].thread

\* C28 as stated: whenever requests are pending, current_thread_id is the
\* thread that raised them.
C28_PendingOnCurrentThread ==
    pending_interrupt # None =>
        \A i \in DOMAIN pending_interrupt :
            RaisedBy(pending_interrupt[i].id) = current_thread_id

\* C29: a decision other than approve or edit leads to no order.  No request
\* that was not resolved by approve or edit has a send_order call or an order;
\* at the console, typed text that is not approve or edit (once stripped and
\* lowered) gives one reject decision for each pending action; in the GUI,
\* handle_approval with a decision that is none of approve, reject and edit
\* builds no resume value and leaves the thread interrupted, its requests
\* undecided.
C29_OtherInputNoOrder ==
    /\ \A k \in DOMAIN req_log :
          req_log[k].state \notin {"approved", "edited"}
             => CallsFor(k) = 0 /\ OrdersFor(k) = 0
    /\ (console.pc = "resume" /\ console.decision \notin {"approve", "edit"})
          => /\ Len(console.decisions) = Len(console.action_requests)
             /\ \A i \in DOMAIN console.decisions : console.decisions[i].type = "reject"
    /\ \A c \in Callers :
          (pc[c] \in {"approval_resume", "approval_finish"}
           /\ frame[c].decision \notin {"approve", "reject", "edit"})
             => /\ ~frame[c].resume_value.set
                /\ frame[c].stream = StreamResult(FALSE, None, FALSE)
                /\ checkpoint[agent][frame[c].thread_id].status = "interrupted"
                /\ \A i \in DOMAIN frame[c].action_requests :
                      req_log[frame[c].action_requests[i].id].state = "pending"

\* C29 witness: the console operator typed "yes" at the prompt, the stream was
\* resumed and ended, and the request has no send_order call and no order.
C29_Witness ==
    /\ console.pc = "done"
    /\ console.typed = <<121, 101, 115>>
    /\ \E k \in DOMAIN req_log :
          req_log[k].state = "ignored" /\ CallsFor(k) = 0 /\ OrdersFor(k) = 0

(***************************************************************************)
(* The risk calculator's claims.                                           *)
(***************************************************************************)
\* The reference level of the call and the stop the claims expect from it:
\* the level less the buffer of 20 pips (200 points) for a buy, plus it for a sell.
RiskReference == IF risk_in.use_mss_sl THEN risk_in.mss_level ELSE risk_in.poi_level
ExpectedStop ==
    IF risk_in.direction = "buy" THEN RiskReference - 200 * risk_in.point
    ELSE RiskReference + 200 * risk_in.point

RiskComputed == risk_out.returned /\ risk_out.error = ""
RightSide ==
    IF risk_in.direction = "buy" THEN ExpectedStop < risk_in.entry_price
    ELSE ExpectedStop > risk_in.entry_price
WholeCents == risk_in.entry_price % 10 = 0 /\ RiskReference % 10 = 0

\* The reported reward less twice the reported risk, in thousandths.
RewardExcess ==
    IF risk_in.direction = "buy"
    THEN (risk_out.take_profit - risk_out.entry_price)
         - 2 * (risk_out.entry_price - risk_out.stop_loss)
    ELSE (risk_out.entry_price - risk_out.take_profit)
         - 2 * (risk_out.stop_loss - risk_out.entry_price)

\* C6 (as amended): for a buy whose stop lies below the entry, and a sell whose
\* stop lies above it, the reported stop is the reference level less (plus) the
\* buffer rounded to the nearest 0.01 (a tie going to either side, as the
\* binary value decides), and the reported reward equals twice the reported
\* risk up to the rounding of the three prices (0.03 at most); both are exact
\* when entry and reference level are multiples of 0.01.
C6_TwoToOneWithinRounding ==
    (RiskComputed /\ RightSide) =>
        /\ risk_out.stop_loss % 10 = 0
        /\ Abs(risk_out.stop_loss - ExpectedStop) <= 5
        /\ risk_out.entry_price % 10 = 0
        /\ Abs(risk_out.entry_price - risk_in.entry_price) <= 5
        /\ Abs(RewardExcess) <= 30
        /\ WholeCents => /\ RewardExcess = 0
                         /\ risk_out.stop_loss = ExpectedStop

\* C6 as stated: the stop is the reference level less (plus) the buffer and the
\* reward is exactly twice the risk.
C6_TwoToOneExactly ==
    (RiskComputed /\ RightSide) =>
        /\ risk_out.stop_loss = ExpectedStop
        /\ RewardExcess = 0

\* C6 witness: the buy at 4190 with the level at 4180 and a buffer of 2 came out
\* with the stop at 4178 and the target at 4214.
C6_Witness ==
    /\ RiskComputed
    /\ risk_in.direction = "buy" /\ risk_in.entry_price = 4190000
    /\ RiskReference = 4180000 /\ risk_in.point = 10
    /\ risk_out.stop_loss = 4178000 /\ risk_out.take_profit = 4214000

\* C7 as stated: with the reference level on the wrong side of the entry the
\* call fails with InvalidReference and returns no stop or target.
C7_InvalidReference ==
    (risk_out.returned /\ risk_in.point # 0 /\ ~RightSide) =>
        /\ risk_out.error = "InvalidReference"
        /\ risk_out.stop_loss = 0 /\ risk_out.take_profit = 0

\* C8 as stated: every result has a risk-reward ratio of exactly 2.
C8_RatioIsTwo == RiskComputed => risk_out.risk_reward_ratio = 200

(***************************************************************************)
(* The order block detector's claims.                                      *)
(***************************************************************************)
OBComputed == ob_out.returned /\ ob_out.error = ""

\* C9 as stated: every order block returned has zone_low strictly below
\* zone_high and a gap size strictly above 0.
C9_ZoneAndGapPositive ==
    OBComputed =>
        \A k \in DOMAIN ob_out.order_blocks :
            /\ ob_out.order_blocks[k].zone_low < ob_out.order_blocks[k].zone_high
            /\ ob_out.order_blocks[k].gap_size > 0

\* The rows i (the third of a triple) that qualify for a block of a type, as the
\* claim gives them.
Qualifies(type, i) ==
    LET c == ob_in.rates
    IN  IF type = "bullish_ob"
        THEN /\ c[i - 1].close > c[i - 2].high
             /\ c[i - 1].open - c[i - 2].high > 0
             /\ c[i].low <= c[i - 2].high
        ELSE /\ c[i - 1].close < c[i - 2].low
             /\ c[i - 2].low - c[i - 1].open > 0
             /\ c[i].high >= c[i - 2].low

FilterTypes ==
    IF ob_in.direction = "both" THEN {"bullish_ob", "bearish_ob"}
    ELSE IF ob_in.direction = "bullish" THEN {"bullish_ob"} ELSE {"bearish_ob"}

QualifyingRows(type) == {i \in 3..Len(ob_in.rates) : Qualifies(type, i)}

\* The block is the one of the given type anchored on the first candle of the
\* triple that ends at row i.
IsBlockOf(block, type, i) ==
    /\ block.type = type
    /\ block.time = ob_in.rates[i - 2].time
    /\ block.zone_low = ob_in.rates[i - 2].low
    /\ block.zone_high = ob_in.rates[i - 2].high

\* The blocks due under the filter, and the place of each in row order (the
\* bullish one first where a row qualifies for both).
Due == {e \in FilterTypes \X (3..Len(ob_in.rates)) : Qualifies(e[1], e[2])}
PlaceOf(e) ==
    1 + Cardinality({f \in Due : \/ f[2] < e[2]
                                 \/ f[2] = e[2] /\ f[1] = "bullish_ob"
                                                /\ e[1] = "bearish_ob"})

\* C10 (as amended): the sequence returned is the last 10 entries (all of them
\* when there are no more than 10) of the list, over bullish and bearish blocks
\* together, that holds exactly one block of each type the filter includes for
\* each qualifying row, anchored on the first candle of the triple, in increasing
\* row order; order_blocks_found is the length of that whole list.
C10_LastTenOfBlocksInOrder ==
    OBComputed =>
        LET out == ob_out.order_blocks
            dropped == Max(0, Cardinality(Due) - 10)
        IN  /\ ob_out.order_blocks_found = Cardinality(Due)
            /\ Len(out) = Cardinality(Due) - dropped
            /\ \A e \in Due :
                  PlaceOf(e) > dropped => IsBlockOf(out[PlaceOf(e) - dropped], e[1], e[2])

\* C10 as stated: for each type the filter includes, the entries of that type
\* returned are exactly one for each qualifying row, in increasing row order.
C10_OneBlockForEachRow ==
    OBComputed =>
        \A type \in FilterTypes :
            LET IsOfType(b) == b.type = type
                ofType == SelectSeq(ob_out.order_blocks, IsOfType)
                rows == QualifyingRows(type)
            IN  /\ Len(ofType) = Cardinality(rows)
                /\ \A i \in rows :
                      IsBlockOf(ofType[Cardinality({j \in rows : j <= i})], type, i)

\* C10 witness: a feed with more than 10 blocks under the filter "both", of
\* which the call returned the last 10, bullish ones among them.
C10_Witness ==
    /\ OBComputed
    /\ ob_in.direction = "both"
    /\ ob_out.order_blocks_found > 10
    /\ Len(ob_out.order_blocks) = 10
    /\ \E k \in DOMAIN ob_out.order_blocks : ob_out.order_blocks[k].type = "bullish_ob"

\* C11 (as amended): the distance of every returned block is the last candle's
\* close less the zone high for a bullish block, and the zone low less the last
\* candle's close for a bearish one: positive when the price has left the zone in
\* the block's direction.
C11_DistanceMirrored ==
    OBComputed =>
        \A k \in DOMAIN ob_out.order_blocks :
            LET block == ob_out.order_blocks[k]
                last_close == ob_in.rates[Len(ob_in.rates)].close
            IN  block.current_price_distance =
                    IF block.type = "bullish_ob" THEN last_close - block.zone_high
                    ELSE block.zone_low - last_close

\* C11 witness: a bearish block returned with the last close below its zone low.
C11_Witness ==
    /\ OBComputed
    /\ \E k \in DOMAIN ob_out.order_blocks :
          /\ ob_out.order_blocks[k].type = "bearish_ob"
          /\ ob_in.rates[Len(ob_in.rates)].close < ob_out.order_blocks[k].zone_low
          /\ ob_out.order_blocks[k].current_price_distance > 0

\* C11 as stated: the distance of every returned block is the last candle's close
\* less the zone high for a bullish block and less the zone low for a bearish one.
C11_DistanceFromLastClose ==
    OBComputed =>
        \A k \in DOMAIN ob_out.order_blocks :
            LET block == ob_out.order_blocks[k]
                last_close == ob_in.rates[Len(ob_in.rates)].close
            IN  block.current_price_distance =
                    IF block.type = "bullish_ob" THEN last_close - block.zone_high
                    ELSE last_close - block.zone_low

(***************************************************************************)
(* The liquidity sweep detector's claims.  Row r is the candle at index    *)
(* r - 1: the indices 5 to len - 3 are the rows 6 to Len - 2.              *)
(***************************************************************************)
SweepComputed == sweep_out.returned /\ sweep_out.error = "" /\ sweep_out.fault = ""

ScannedRows == 6..(Len(sweep_in.rates) - 2)

\* The lowest low and the highest high of the five candles before row r.
LowOfFive(r) ==
    CHOOSE m \in {sweep_in.rates[k].low : k \in (r - 5)..(r - 1)} :
        \A k \in (r - 5)..(r - 1) : m <= sweep_in.rates[k].low
HighOfFive(r) ==
    CHOOSE m \in {sweep_in.rates[k].high : k \in (r - 5)..(r - 1)} :
        \A k \in (r - 5)..(r - 1) : m >= sweep_in.rates[k].high

\* C13: every sweep returned has its sweep candle at some row and its
\* confirmation candle at the next row, which is a row of the series.
C13_ConfirmationInSeries ==
    SweepComputed =>
        \A k \in DOMAIN sweep_out.recent_sweeps :
            \E r \in DOMAIN sweep_in.rates :
                /\ sweep_in.rates[r].time = sweep_out.recent_sweeps[k].sweep_time
                /\ r + 1 \in DOMAIN sweep_in.rates
                /\ sweep_in.rates[r + 1].time
                       = sweep_out.recent_sweeps[k].confirmation_candle

\* C13 witness: a sweep returned for the last candle the loop reaches, confirmed
\* by the candle before the last of the series.
C13_Witness ==
    /\ SweepComputed
    /\ \E k \in DOMAIN sweep_out.recent_sweeps :
          /\ sweep_out.recent_sweeps[k].sweep_time = Len(sweep_in.rates) - 2
          /\ sweep_out.recent_sweeps[k].confirmation_candle = Len(sweep_in.rates) - 1

\* The conditions as the claims give them, at row r.
BullishWickAt(r) ==
    LET c == sweep_in.rates
    IN  /\ c[r].low < LowOfFive(r) /\ LowOfFive(r) < c[r].close
        /\ c[r + 1].close > LowOfFive(r) /\ c[r + 1].low > LowOfFive(r)

BearishWickAt(r) ==
    LET c == sweep_in.rates
    IN  /\ c[r].high > HighOfFive(r) /\ HighOfFive(r) > c[r].close
        /\ c[r + 1].close < HighOfFive(r) /\ c[r + 1].high < HighOfFive(r)

\* The falling candle at row r has a body of at most 0.30 of its range and
\* closes below the lows; the next one rises, closes back above them and has a
\* body of at least 0.40 of the first one's.
RejectionAt(r) ==
    LET c == sweep_in.rates
        body == Abs(c[r].close - c[r].open)
        next_body == Abs(c[r + 1].close - c[r + 1].open)
    IN  /\ c[r].close < c[r].open
        /\ 10 * body <= 3 * (c[r].high - c[r].low)
        /\ c[r].close < LowOfFive(r)
        /\ c[r + 1].close > c[r + 1].open
        /\ c[r + 1].close > LowOfFive(r)
        /\ 10 * next_body >= 4 * body

\* The list holds, for row r, an entry of each of the two conditions.
TwoEntriesFor(list, r) ==
    \E a, b \in DOMAIN list :
        /\ a # b
        /\ list[a].sweep_time = r /\ list[a].condition = "wick_sweep"
        /\ list[b].sweep_time = r /\ list[b].condition = "two_candle_rejection"

BothAt(r) == (BullishWickAt(r) \/ BearishWickAt(r)) /\ RejectionAt(r)

\* C14 (as amended): for a row where the wick-sweep condition and the
\* two-candle-rejection condition both hold, the detector's list of sweeps has
\* two distinct entries, one per condition; what it returns is the last 5
\* entries of that list, so the two are reported unless later sweeps push one
\* or both of them out.
C14_TwoEntriesFound ==
    SweepComputed =>
        /\ \A r \in ScannedRows : BothAt(r) => TwoEntriesFor(sweeps, r)
        /\ sweep_out.sweeps_detected = Len(sweeps)
        /\ Len(sweep_out.recent_sweeps) = Min(5, Len(sweeps))
        /\ \A k \in DOMAIN sweep_out.recent_sweeps :
              sweep_out.recent_sweeps[k]
                  = sweeps[Len(sweeps) - Len(sweep_out.recent_sweeps) + k]

\* C14 as stated: for such a row the detector reports two distinct entries.
C14_TwoEntriesReported ==
    SweepComputed =>
        \A r \in ScannedRows : BothAt(r) => TwoEntriesFor(sweep_out.recent_sweeps, r)

\* C14 witness: there is a series with a row where both conditions hold, and
\* the call reported the two entries.
C14_Witness ==
    /\ SweepComputed
    /\ \E r \in ScannedRows : BothAt(r) /\ TwoEntriesFor(sweep_out.recent_sweeps, r)

HasWick(type, r, level) ==
    \E k \in DOMAIN sweeps :
        /\ sweeps[k].type = type /\ sweeps[k].condition = "wick_sweep"
        /\ sweeps[k].sweep_time = r /\ sweeps[k].swept_level = level

\* C15: for every row from 6 to Len - 2 the detector finds a bullish wick sweep
\* at the lowest low of the five candles before it exactly when the candle's low
\* is below that level, its close above it, and the next candle's close and low
\* are above it; and a bearish one, with the highest high, the other way round.
C15_WickSweepExactlyWhen ==
    SweepComputed =>
        \A r \in ScannedRows :
            /\ HasWick("bullish_liq_sweep", r, LowOfFive(r)) <=> BullishWickAt(r)
            /\ HasWick("bearish_liq_sweep", r, HighOfFive(r)) <=> BearishWickAt(r)

\* C15 witness: a call that found a bullish wick sweep at one row, a bearish one
\* at another, and none at a third whose low only touched the level.
C15_Witness ==
    /\ SweepComputed
    /\ \E r \in ScannedRows : HasWick("bullish_liq_sweep", r, LowOfFive(r))
    /\ \E r \in ScannedRows : HasWick("bearish_liq_sweep", r, HighOfFive(r))
    /\ \E r \in ScannedRows :
          /\ sweep_in.rates[r].low = LowOfFive(r)
          /\ ~HasWick("bullish_liq_sweep", r, LowOfFive(r))

\* C16: no call ends in a division by zero, whatever candles the series holds;
\* a rejection entry carries the quotient of the first candle's body by its
\* range and of the second candle's body by the first one's, both with a
\* divisor that is not zero.
C16_NoDivisionByZero ==
    sweep_out.returned =>
        /\ sweep_out.fault # "ZeroDivisionError"
        /\ \A k \in DOMAIN sweeps :
              sweeps[k].condition = "two_candle_rejection" =>
                  /\ sweeps[k].first_candle_body_ratio[2] # 0
                  /\ sweeps[k].second_candle_inverse[2] # 0

\* C16 witness: a call that went over a candle without range (and so without
\* body) and also found a rejection.
C16_Witness ==
    /\ SweepComputed
    /\ \E r \in ScannedRows : sweep_in.rates[r].high = sweep_in.rates[r].low
    /\ \E k \in DOMAIN sweeps : sweeps[k].condition = "two_candle_rejection"

(***************************************************************************)
(* The detectors on short series.                                          *)
(***************************************************************************)
\* C12 as stated: on a series of no, one or two candles each detector returns
\* an empty result or its not-found value, and does not fault.
C12_ShortSeriesNoFault ==
    /\ (ob_out.returned /\ Len(ob_in.rates) <= 2) =>
           ob_out.error = "" /\ ob_out.order_blocks = <<>>
    /\ (sweep_out.returned /\ Len(sweep_in.rates) <= 2) =>
           sweep_out.fault = "" /\ sweep_out.recent_sweeps = <<>>
    /\ (mss_out.returned /\ Len(mss_in.rates) <= 2) =>
           /\ mss_out.fault = ""
           /\ mss_out.error = "No MSS detected yet" \/ mss_out.pois = <<>>

(***************************************************************************)
(* The structure shift locator's claims.                                   *)
(***************************************************************************)
MSSFound == mss_out.returned /\ mss_out.mss_found

\* C17 as stated: a reported shift has its level strictly above the zone start.
C17_LevelAboveZoneStart ==
    MSSFound => mss_out.mss_level > mss_out.mss_zone.start

\* C18 as stated: the zone start is the lowest low among the candles at or
\* after the sweep candle.
C18_ZoneStartSinceSweep ==
    (MSSFound /\ mss_in.sweep_candle_time # 0) =>
        LET since == {r \in DOMAIN mss_in.rates :
                         mss_in.rates[r].time >= mss_in.sweep_candle_time}
        IN  /\ \E r \in since : mss_in.rates[r].low = mss_out.mss_zone.start
            /\ \A r \in since : mss_in.rates[r].low >= mss_out.mss_zone.start

\* C19 as stated: the POIs are in non-decreasing order of their reported time,
\* and of an FVG and an order block found at one candle the FVG comes first.
C19_PoisInTimeOrder ==
    MSSFound =>
        \A k \in 1..(Len(mss_out.pois) - 1) :
            /\ mss_out.pois[k].time <= mss_out.pois[k + 1].time
            /\ ~(/\ mss_out.pois[k].type = "Order_Block"
                 /\ mss_out.pois[k + 1].type = "FVG"
                 /\ mss_out.pois[k + 1].time = mss_out.pois[k].time + 1)

\* The row of the candle at which a POI was detected: the candle of the time an
\* FVG reports, the one after the candle an order block reports.
DetectedAt(poi) == IF poi.type = "FVG" THEN poi.time ELSE poi.time + 1

\* The anchor: the first candle with the lowest low of the series.
AnchorRow ==
    CHOOSE r \in DOMAIN mss_in.rates :
        /\ \A k \in DOMAIN mss_in.rates : mss_in.rates[r].low <= mss_in.rates[k].low
        /\ \A k \in 1..(r - 1) : mss_in.rates[k].low > mss_in.rates[r].low

\* C20 (as amended): every POI returned is detected at a candle from the anchor
\* candle to the last but one of the series, no more than 49 candles after the
\* anchor, whose low lies in the zone from the zone start to the shift level;
\* candles after the shift candle contribute as well.
C20_PoisFromAnchorInZone ==
    MSSFound =>
        \A k \in DOMAIN mss_out.pois :
            LET row == DetectedAt(mss_out.pois[k])
            IN  /\ AnchorRow <= row /\ row <= Len(mss_in.rates) - 1
                /\ row <= AnchorRow + 49
                /\ mss_out.mss_zone.start <= mss_in.rates[row].low
                /\ mss_in.rates[row].low <= mss_out.mss_level

\* C20 as stated: every POI returned is detected at a candle from the anchor
\* candle to the shift candle.
C20_PoisUpToShift ==
    MSSFound =>
        \A k \in DOMAIN mss_out.pois :
            /\ AnchorRow <= DetectedAt(mss_out.pois[k])
            /\ DetectedAt(mss_out.pois[k]) <= mss_out.mss_time

\* C20 witness: a POI returned that was detected after the shift candle, at the
\* last candle but one.
C20_Witness ==
    /\ MSSFound
    /\ \E k \in DOMAIN mss_out.pois :
          /\ DetectedAt(mss_out.pois[k]) > mss_out.mss_time
          /\ DetectedAt(mss_out.pois[k]) = Len(mss_in.rates) - 1

\* C23 as stated: every POI returned has its zone inside the band from the zone
\* start to the shift level, fair-value gaps and order blocks alike.
C23_PoiZonesInBand ==
    MSSFound =>
        \A k \in DOMAIN mss_out.pois :
            /\ mss_out.mss_zone.start <= mss_out.pois[k].zone_low
            /\ mss_out.pois[k].zone_high <= mss_out.mss_level

\* The call ran on a series that has a candle, so that there is an anchor.
MSSScanned == mss_out.returned /\ mss_in.ok /\ Len(mss_in.rates) > 0

\* The candle's high is strictly above the high of every candle from the
\* anchor to the candle before it.
BreaksAt(r) ==
    \A k \in AnchorRow..(r - 1) : mss_in.rates[r].high > mss_in.rates[k].high

\* C24: on a series with an anchor the call does not fault; it reports the shift
\* at the first candle after the anchor whose high is strictly above the highs
\* of all candles from the anchor to the one before it, and it reports "No MSS
\* detected yet" exactly when there is no such candle, the anchor being the
\* last candle included.
C24_ShiftAtFirstBreak ==
    MSSScanned =>
        LET breaks == {r \in (AnchorRow + 1)..Len(mss_in.rates) : BreaksAt(r)}
        IN  /\ mss_out.fault = ""
            /\ mss_out.mss_found <=> breaks # {}
            /\ mss_out.mss_found =>
                  /\ mss_out.mss_time \in breaks
                  /\ \A r \in breaks : mss_out.mss_time <= r
                  /\ mss_out.error = ""
            /\ ~mss_out.mss_found => mss_out.error = "No MSS detected yet"

\* C24 witness: the shift is reported at a later candle than the one right
\* after the anchor, which did not break the high.
C24_Witness ==
    /\ MSSScanned /\ mss_out.mss_found
    /\ mss_out.mss_time > AnchorRow + 1
    /\ ~BreaksAt(AnchorRow + 1)

\* C25: the level of a reported shift is the high of the anchor candle.
C25_LevelIsAnchorHigh ==
    MSSFound => mss_out.mss_level = mss_in.rates[AnchorRow].high

\* C25 witness: a shift found past a candle whose high equals the anchor's,
\* with the anchor's high as level.
C25_Witness ==
    /\ MSSFound
    /\ \E r \in (AnchorRow + 1)..(mss_out.mss_time - 1) :
          mss_in.rates[r].high = mss_in.rates[AnchorRow].high
    /\ mss_out.mss_level = mss_in.rates[AnchorRow].high

(***************************************************************************)
(* send_order's claims, checked under SpecOrder.                           *)
(***************************************************************************)
\* C21: one call of send_order hands mt5.order_send at most one request, also
\* when the order fails; when order_send's result is not DONE the object
\* returned has an error, no success flag and, if there is a result at all,
\* the result's retcode.
C21_NoRetryErrorSurfaced ==
    order_out.returned =>
        /\ Len(order_out.sent) <= 1
        /\ (order_out.sent # <<>> /\ order_in.env.result # "DONE") =>
              /\ order_out.response.error # ""
              /\ ~order_out.response.success
              /\ (order_in.env.result # "None" =>
                    order_out.response.retcode = order_in.env.result)

\* C21 witness: an order was sent and rejected by the terminal.
C21_Witness ==
    /\ order_out.returned
    /\ Len(order_out.sent) = 1
    /\ order_in.env.result = "REJECT"
    /\ order_out.response.retcode = "REJECT"
    /\ order_out.response.error = "Order execution failed"

\* No symbol info, a symbol that is not visible and cannot be selected, or no
\* tick.
OrderPrecheckFails ==
    \/ ~order_in.env.symbol_info
    \/ ~order_in.env.visible /\ ~order_in.env.select
    \/ ~order_in.env.tick.ok

\* C30: without symbol info, with a symbol that is not visible and cannot be
\* selected, or without a tick, send_order hands nothing to mt5.order_send and
\* returns an error.
C30_NothingSentWithoutSymbolOrTick ==
    (order_out.returned /\ OrderPrecheckFails) =>
        /\ order_out.sent = <<>>
        /\ order_out.response.error # ""
        /\ ~order_out.response.success

\* C30 witness: the symbol was selected but there was no tick, and the call
\* returned the error without sending.
C30_Witness ==
    /\ order_out.returned
    /\ order_in.env.symbol_info /\ ~order_in.env.visible /\ order_in.env.select
    /\ ~order_in.env.tick.ok
    /\ order_out.sent = <<>>
    /\ order_out.response.error = "Failed to get current price"

====
